---------------------------- MODULE Spec2Model ----------------------------
(***************************************************************************)
(* Life Timer: the TimerProvider state machine.                            *)
(*                                                                         *)
(* Four TimerProvider sources are modelled side by side; `variant' says    *)
(* which one the session runs:                                             *)
(*   "ctx"  src/src/context/TimerContext.tsx  (onSnapshot listener, save   *)
(*          on every state change, catch-up inside the timer effect)       *)
(*   "p4"   src/unnamed/part_004              (getDoc load with offline    *)
(*          catch-up, calculateElapsedTime on visibility, saveNow)         *)
(*   "p3"   src/unnamed/part_003              (getDoc load with offline    *)
(*          catch-up, save debounced by 2 s, catch-up on visibility)       *)
(*   "p2"   src/unnamed/part_002, 435-925     (getDoc load with offline    *)
(*          catch-up, saveNow, getDoc again when the page becomes visible) *)
(*                                                                         *)
(* Units.  Timestamps are milliseconds.  workElapsedSeconds is in whole    *)
(* seconds.  The play balance is a JavaScript number that moves in steps   *)
(* of PLAY_GAIN_RATE = 0.5 s; it is held exactly, as a count of half       *)
(* seconds, in the field playBalanceHalves (Sec(n) is n seconds).          *)
(*                                                                         *)
(* React.  setState(updater) queues the updater; updaters run in order on  *)
(* the latest state, so `state' is the state with every queued updater     *)
(* applied.  `rendered' is the state of the last render: what handler      *)
(* closures (state.x) and stateRef.current read.  A click handler runs in  *)
(* a React event and is flushed synchronously: nothing runs between the    *)
(* handler and its render (syncRender).  Timer and listener callbacks are  *)
(* rendered by a later Render step, before the clock moves and before the  *)
(* next callback from outside React; a click may come before that render   *)
(* and then reads the stale `rendered'.                                    *)
(*                                                                         *)
(* Time.  The wall clock moves in steps of TimeStep and may be set back    *)
(* once.  The interval callback may fire late (Tick is never forced); the  *)
(* 500 ms timeout and Firestore deliveries happen before the clock moves.  *)
(*                                                                         *)
(* Specifications.  Spec is the timer of "ctx" or "p4" without the quest   *)
(* and inventory pages; SpecLedger adds them over a shorter stretch of     *)
(* time and leaves sign-out and clock adjustment out; SpecQuests is the    *)
(* quest and inventory pages with the add-quest form (whose text fields    *)
(* are sequences of characters) at one instant; SpecDebounced is the       *)
(* timer of "p3" with a steady clock, and SpecTicking its signed-in part   *)
(* under fair scheduling; SpecReload is the timer of "p2"; SpecFaulty is   *)
(* Spec with Firestore reads and writes that may fail (everywhere else     *)
(* they succeed: the actions take the outcome as a parameter); SpecUsers   *)
(* is a browser two accounts sign in to; SpecPending is "p4" with page     *)
(* loads and the beforeunload backup in localStorage; SpecSessions is      *)
(* "ctx" open in two sessions of one account.  Not modelled: the 5 s       *)
(* periodic save of "p4" and "p2" (runs are shorter).                      *)
(***************************************************************************)
EXTENDS Integers, Sequences, FiniteSets, TLC

VARIABLES
    variant,        \* "ctx" | "p4" | "p3" | "p2": which TimerProvider source runs
    peer,           \* ctx: the other open session of the account (a Session record)
    reloading,      \* p2: the getDoc of the visible handler is in flight
    uid,            \* the account of useAuth().user (or of the last one)
    otherDoc,       \* the Firestore document of the other account
    loads,          \* p4, p3, p2: the accounts a loadFromFirestore is in flight for
    owner,          \* history: the account whose document the snapshot was loaded from
    pendingSave,    \* localStorage "life-timer-pending-save": << >> or <<snapshot>>
    pendingUid,     \* localStorage "life-timer-pending-uid": "" (absent) or an account
    error,          \* AddQuestPage: useState("") of the form's error message
    lastSavedState, \* p3: lastSavedState.current: << >> ("") or <<snapshot>>
    saveTimeout,    \* p3: the age (ms) of the debounce timeout, -1 when none
    saveArgs,       \* p3: the snapshot the pending debounced save was called with
    now,            \* Date.now(): the wall clock, ms
    skewed,         \* the wall clock has been set back by JumpBackMs
    user,           \* useAuth().user is non-null
    visible,        \* document.visibilityState = "visible"
    state,          \* useState<AppState>: the snapshot
    rendered,       \* the snapshot of the last render (closures, stateRef.current)
    isHydrated,     \* useState(false)
    hydRendered,    \* isHydrated as of the last render (effects, page guards)
    syncRender,     \* the render of the update just queued runs next
    isInitialLoad,  \* ctx: isInitialLoad.current
    initTimers,     \* ctx: the ages (ms) of the pending 500 ms timeouts
    loading,        \* p4: a loadFromFirestore is in flight (isLoadingFromFirestore.current)
    previousMode,   \* p4: previousMode.current
    remote,         \* the user's Firestore document: <<>> (absent) or <<doc>>
    snapPending,    \* ctx: an onSnapshot event waits to be delivered
    sinceTick,      \* ms since the 1 s interval was armed or last fired
    showPlayEndedNotification,
    nextId,         \* crypto.randomUUID(): the next fresh identifier
    fromDoc,        \* history: since sign-in the snapshot was loaded from the document
    lastOp,         \* history: the operation that made the last step
    elapsed,        \* history: the elapsedSeconds a catch-up computed, else 0
    preMode         \* history: the mode of the snapshot that operation ran on

vars == << variant, peer, reloading, uid, otherDoc, loads, owner, pendingSave,
           pendingUid, error, lastSavedState, saveTimeout, saveArgs, now, skewed, user, visible, state, rendered, isHydrated,
           hydRendered, syncRender, isInitialLoad, initTimers, loading,
           previousMode, remote, snapPending, sinceTick,
           showPlayEndedNotification, nextId, fromDoc, lastOp, elapsed,
           preMode >>

----------------------------------------------------------------------------
(* Program constants *)

\* PLAY_GAIN_RATE = 0.5 seconds of play per second of work, in half seconds
PLAY_GAIN_RATE == 1

\* PENALTY_SECONDS = 300
PENALTY_SECONDS == 300

\* setInterval(..., 1000)
TickIntervalMs == 1000

\* setTimeout(() => { isInitialLoad.current = false }, 500)
InitialLoadDelayMs == 500

\* useDebouncedCallback(..., 2000)
SaveDelayMs == 2000

(* Bounds of the model *)

\* real time runs for at most MaxNowSec seconds after the module is loaded
MaxNowSec == 4

\* ... and for at most LedgerNowSec seconds in the runs that use the ledger
LedgerNowSec == 1

\* ... and for at most DebouncedNowSec seconds in the runs of the p3 source
DebouncedNowSec == 3

\* ... and for at most PendingNowSec seconds in the runs with a page load
PendingNowSec == 1

\* ... and for at most SessionsNowSec seconds in the runs with two sessions
SessionsNowSec == 2

\* ... and for at most UsersNowSec seconds in the runs with two accounts
UsersNowSec == 1

\* ... and for at most ReloadNowSec seconds in the runs of the p2 source
ReloadNowSec == 2

\* ... and for at most FaultyNowSec seconds in the runs where writes may fail
FaultyNowSec == 2

\* identifiers crypto.randomUUID() hands out in one run
MaxIds == 3

\* The clock moves in steps of half a tick interval.
TimeStep == TickIntervalMs \div 2

\* Date.now() when the module is loaded.
Epoch == 4 * TickIntervalMs

\* A backward adjustment of the wall clock.
JumpBackMs == 3 * TimeStep

\* what the add-quest form's title field may hold
TitleInputs == {<< >>, << " " >>, << "q" >>, << " ", "q", " " >>}

\* what the add-quest form's reward field (input type="number") may hold
RewardTexts ==
    {<< >>, << "0" >>, << "1" >>, << "-", "1" >>, << "1", "0" >>,
     << "0", ".", "5" >>, << "1", ".", "5" >>, << " ", "1" >>}

\* rewardMinutes handed to addQuest (the context function takes any number)
RewardInputs == {-1, 1}

\* titles handed to addQuest, as sequences of characters
Titles == {<< "q" >>}

Modes == {"WORK", "PLAY", "NOTHING"}

\* the accounts that sign in on this browser
Accounts == {"A", "B"}

Other(u) == IF u = "A" THEN "B" ELSE "A"

\* the sources Spec and SpecLedger run
Variants == {"ctx", "p4"}

----------------------------------------------------------------------------
(* Arithmetic *)

Max(a, b) == IF a >= b THEN a ELSE b

Min(a, b) == IF a <= b THEN a ELSE b

\* n seconds as half seconds
Sec(n) == 2 * n

\* Math.floor of a half-second amount, in half seconds
MathFloor(h) == 2 * (h \div 2)

\* Math.floor((now - lastTickTimestamp) / 1000)
ElapsedSeconds(t, last) == (t - last) \div 1000

\* real time since the module was loaded
RealTime == now + (IF skewed THEN JumpBackMs ELSE 0)

----------------------------------------------------------------------------
(* Snapshots *)

\* const initialState, with the Date.now() of the module load
initialState ==
    [ workElapsedSeconds |-> 0,
      playBalanceHalves  |-> 0,
      mode               |-> "NOTHING",
      lastTickTimestamp  |-> Epoch,
      quests             |-> << >>,
      inventory          |-> << >> ]

\* quests.filter / inventory.filter
RECURSIVE Filter(_, _)
Filter(seq, keep) ==
    IF seq = << >> THEN << >>
    ELSE IF keep[Head(seq).id] THEN << Head(seq) >> \o Filter(Tail(seq), keep)
    ELSE Filter(Tail(seq), keep)

\* selectedItems.reduce((sum, item) => sum + item.minutes, 0)
RECURSIVE SumMinutes(_)
SumMinutes(seq) ==
    IF seq = << >> THEN 0 ELSE Head(seq).minutes + SumMinutes(Tail(seq))

Ids == 1 .. MaxIds

\* ids.includes(item.id) as a map over the identifiers
Includes(ids) == [ i \in Ids |-> i \in ids ]

----------------------------------------------------------------------------
(* The text of the add-quest form: strings are sequences of characters.    *)

\* the white space String.prototype.trim and parseInt strip
IsWhitespace(c) == c = " "

DigitChars == << "0", "1", "2", "3", "4", "5", "6", "7", "8", "9" >>

IsDigit(c) == \E i \in DOMAIN DigitChars : DigitChars[i] = c

DigitValue(c) == (CHOOSE i \in DOMAIN DigitChars : DigitChars[i] = c) - 1

RECURSIVE TrimStart(_)
TrimStart(s) ==
    IF s # << >> /\ IsWhitespace(Head(s)) THEN TrimStart(Tail(s)) ELSE s

RECURSIVE TrimEnd(_)
TrimEnd(s) ==
    IF s # << >> /\ IsWhitespace(s[Len(s)])
    THEN TrimEnd(SubSeq(s, 1, Len(s) - 1))
    ELSE s

\* title.trim()
trim(s) == TrimEnd(TrimStart(s))

\* the longest prefix of s made of decimal digits
RECURSIVE DigitPrefix(_)
DigitPrefix(s) ==
    IF s # << >> /\ IsDigit(Head(s))
    THEN << Head(s) >> \o DigitPrefix(Tail(s))
    ELSE << >>

\* the number a sequence of decimal digits writes
RECURSIVE DigitsValue(_)
DigitsValue(ds) ==
    IF ds = << >>
    THEN 0
    ELSE 10 * DigitsValue(SubSeq(ds, 1, Len(ds) - 1)) + DigitValue(ds[Len(ds)])

\* a faulty parseInt, which drops the sign; SubmitRejectsInvalid must not
\* hold of it
parseIntUnsigned(s) ==
    LET t  == TrimStart(s)
        ds == DigitPrefix(IF t # << >> /\ Head(t) \in {"-", "+"}
                          THEN Tail(t)
                          ELSE t)
    IN  [ isNaN |-> ds = << >>, value |-> DigitsValue(ds) ]

\* parseInt(s, 10): leading white space and a sign are skipped, the digits
\* that follow are read and the rest of the string is ignored; NaN when no
\* digit follows.  The result is isNaN and, when not NaN, the value.
parseInt(s) ==
    LET t      == TrimStart(s)
        signed == t # << >> /\ Head(t) \in {"-", "+"}
        ds     == DigitPrefix(IF signed THEN Tail(t) ELSE t)
    IN  [ isNaN |-> ds = << >>,
          value |-> IF signed /\ Head(t) = "-"
                    THEN 0 - DigitsValue(ds)
                    ELSE DigitsValue(ds) ]

\* the messages handleSubmit shows
TitleRequired == "Gorev adi gerekli"

MinutesInvalid == "Gecerli bir dakika degeri girin (1+)"

----------------------------------------------------------------------------
(* The state updaters.  Each gives the next snapshot `s' and whether       *)
(* triggerPlayEndedNotification() was called (`ended').                    *)

\* a faulty tick, which counts a second of work in every mode but PLAY;
\* NothingOnlyStamps must not hold of it
TickUpdaterCountsIdle(prev, currentTime) ==
    IF prev.mode = "PLAY" THEN
        LET playBalance == Max(0, prev.playBalanceHalves - Sec(1))
        IN  [ s |-> [ prev EXCEPT
                        !.playBalanceHalves = playBalance,
                        !.mode = IF playBalance = 0 THEN "NOTHING" ELSE "PLAY",
                        !.lastTickTimestamp = currentTime ],
              ended |-> (playBalance = 0) ]
    ELSE
        [ s |-> [ prev EXCEPT
                    !.workElapsedSeconds = prev.workElapsedSeconds + 1,
                    !.playBalanceHalves  = prev.playBalanceHalves + PLAY_GAIN_RATE,
                    !.lastTickTimestamp  = currentTime ],
          ended |-> FALSE ]

\* the interval callback's updater (the same in both sources)
TickUpdater(prev, currentTime) ==
    IF prev.mode = "WORK" THEN
        [ s |-> [ prev EXCEPT
                    !.workElapsedSeconds = prev.workElapsedSeconds + 1,
                    !.playBalanceHalves  = prev.playBalanceHalves + PLAY_GAIN_RATE,
                    !.lastTickTimestamp  = currentTime ],
          ended |-> FALSE ]
    ELSE IF prev.mode = "PLAY" THEN
        LET playBalance == Max(0, prev.playBalanceHalves - Sec(1))
        IN  [ s |-> [ prev EXCEPT
                        !.playBalanceHalves = playBalance,
                        !.mode = IF playBalance = 0 THEN "NOTHING" ELSE "PLAY",
                        !.lastTickTimestamp = currentTime ],
              ended |-> (playBalance = 0) ]
    ELSE
        [ s |-> [ prev EXCEPT !.lastTickTimestamp = currentTime ],
          ended |-> FALSE ]

\* ctx: the catch-up updater of the timer effect; the work branch credits
\* Math.floor(elapsedSeconds * PLAY_GAIN_RATE)
CatchUpUpdater(prev, elapsedSeconds, t) ==
    IF prev.mode = "WORK" THEN
        [ s |-> [ prev EXCEPT
                    !.workElapsedSeconds = prev.workElapsedSeconds + elapsedSeconds,
                    !.playBalanceHalves  = prev.playBalanceHalves
                                             + MathFloor(elapsedSeconds * PLAY_GAIN_RATE),
                    !.lastTickTimestamp  = t ],
          ended |-> FALSE ]
    ELSE IF prev.mode = "PLAY" THEN
        LET newPlayBalance == Max(0, prev.playBalanceHalves - Sec(elapsedSeconds))
        IN  [ s |-> [ prev EXCEPT
                        !.playBalanceHalves = newPlayBalance,
                        !.mode = IF newPlayBalance = 0 THEN "NOTHING" ELSE "PLAY",
                        !.lastTickTimestamp = t ],
              ended |-> (newPlayBalance = 0) ]
    ELSE
        [ s |-> [ prev EXCEPT !.lastTickTimestamp = t ], ended |-> FALSE ]

\* a faulty calculateElapsedTime updater, which leaves lastTickTimestamp
\* where it was; ReconcileIdempotent must not hold of it
ElapsedUpdaterNoStamp(prev, elapsedSeconds, t) ==
    IF prev.mode = "WORK" THEN
        [ s |-> [ prev EXCEPT
                    !.workElapsedSeconds = prev.workElapsedSeconds + elapsedSeconds,
                    !.playBalanceHalves  = prev.playBalanceHalves
                                             + elapsedSeconds * PLAY_GAIN_RATE ],
          ended |-> FALSE ]
    ELSE IF prev.mode = "PLAY" THEN
        LET playBalance == Max(0, prev.playBalanceHalves - Sec(elapsedSeconds))
        IN  [ s |-> [ prev EXCEPT
                        !.playBalanceHalves = playBalance,
                        !.mode = IF playBalance = 0 THEN "NOTHING" ELSE "PLAY" ],
              ended |-> (playBalance = 0) ]
    ELSE
        [ s |-> prev, ended |-> FALSE ]

\* a faulty calculateElapsedTime updater, which subtracts without
\* Math.max(0, ...); PlayCatchUpClamps must not hold of it
ElapsedUpdaterNoClamp(prev, elapsedSeconds, t) ==
    IF prev.mode = "WORK" THEN
        [ s |-> [ prev EXCEPT
                    !.workElapsedSeconds = prev.workElapsedSeconds + elapsedSeconds,
                    !.playBalanceHalves  = prev.playBalanceHalves
                                             + elapsedSeconds * PLAY_GAIN_RATE,
                    !.lastTickTimestamp  = t ],
          ended |-> FALSE ]
    ELSE IF prev.mode = "PLAY" THEN
        LET playBalance == prev.playBalanceHalves - Sec(elapsedSeconds)
        IN  [ s |-> [ prev EXCEPT
                        !.playBalanceHalves = playBalance,
                        !.mode = IF playBalance = 0 THEN "NOTHING" ELSE "PLAY",
                        !.lastTickTimestamp = t ],
              ended |-> (playBalance = 0) ]
    ELSE
        [ s |-> [ prev EXCEPT !.lastTickTimestamp = t ], ended |-> FALSE ]

\* p4: the updater calculateElapsedTime queues; the work branch credits
\* elapsedSeconds * PLAY_GAIN_RATE
ElapsedUpdater(prev, elapsedSeconds, t) ==
    IF prev.mode = "WORK" THEN
        [ s |-> [ prev EXCEPT
                    !.workElapsedSeconds = prev.workElapsedSeconds + elapsedSeconds,
                    !.playBalanceHalves  = prev.playBalanceHalves
                                             + elapsedSeconds * PLAY_GAIN_RATE,
                    !.lastTickTimestamp  = t ],
          ended |-> FALSE ]
    ELSE IF prev.mode = "PLAY" THEN
        LET playBalance == Max(0, prev.playBalanceHalves - Sec(elapsedSeconds))
        IN  [ s |-> [ prev EXCEPT
                        !.playBalanceHalves = playBalance,
                        !.mode = IF playBalance = 0 THEN "NOTHING" ELSE "PLAY",
                        !.lastTickTimestamp = t ],
              ended |-> (playBalance = 0) ]
    ELSE
        [ s |-> [ prev EXCEPT !.lastTickTimestamp = t ], ended |-> FALSE ]

\* p4: calculateElapsedTime.  `current' is stateRef.current, which gives
\* elapsedSeconds; `prev' is the snapshot the queued updater runs on.
\* Nothing is queued when elapsedSeconds <= 0.
calculateElapsedTime(current, prev, t) ==
    LET elapsedSeconds == ElapsedSeconds(t, current.lastTickTimestamp)
    IN  IF elapsedSeconds <= 0
        THEN [ s |-> prev, ended |-> FALSE ]
        ELSE ElapsedUpdater(prev, elapsedSeconds, t)

\* p4: the snapshot loadFromFirestore builds from a stored document; the
\* play branch sets NOTHING without calling triggerPlayEndedNotification
LoadedState(data, t) ==
    LET lastTimestamp  == IF data.lastTickTimestamp = 0 THEN t
                          ELSE data.lastTickTimestamp
        elapsedSeconds == ElapsedSeconds(t, lastTimestamp)
        playBalance    == Max(0, data.playBalanceHalves - Sec(elapsedSeconds))
    IN  IF elapsedSeconds > 0 /\ data.mode = "WORK" THEN
            [ data EXCEPT
                !.workElapsedSeconds = data.workElapsedSeconds + elapsedSeconds,
                !.playBalanceHalves  = data.playBalanceHalves
                                         + elapsedSeconds * PLAY_GAIN_RATE,
                !.lastTickTimestamp  = t ]
        ELSE IF elapsedSeconds > 0 /\ data.mode = "PLAY" THEN
            [ data EXCEPT
                !.playBalanceHalves = playBalance,
                !.mode = IF playBalance = 0 THEN "NOTHING" ELSE "PLAY",
                !.lastTickTimestamp = t ]
        ELSE [ data EXCEPT !.lastTickTimestamp = t ]

\* p3: the snapshot loadFromFirestore builds from a stored document; the
\* work branch credits Math.floor(elapsedSeconds * PLAY_GAIN_RATE)
LoadedStateP3(data, t) ==
    LET lastTimestamp  == IF data.lastTickTimestamp = 0 THEN t
                          ELSE data.lastTickTimestamp
        elapsedSeconds == ElapsedSeconds(t, lastTimestamp)
        playBalance    == Max(0, data.playBalanceHalves - Sec(elapsedSeconds))
    IN  IF elapsedSeconds > 0 /\ data.mode = "WORK" THEN
            [ data EXCEPT
                !.workElapsedSeconds = data.workElapsedSeconds + elapsedSeconds,
                !.playBalanceHalves  = data.playBalanceHalves
                                         + MathFloor(elapsedSeconds * PLAY_GAIN_RATE),
                !.lastTickTimestamp  = t ]
        ELSE IF elapsedSeconds > 0 /\ data.mode = "PLAY" THEN
            [ data EXCEPT
                !.playBalanceHalves = playBalance,
                !.mode = IF playBalance = 0 THEN "NOTHING" ELSE "PLAY",
                !.lastTickTimestamp = t ]
        ELSE [ data EXCEPT !.lastTickTimestamp = t ]

\* p3: the updater handleVisibilityChange queues when the page is visible
\* again; the work branch credits Math.floor(elapsedSeconds * PLAY_GAIN_RATE)
VisibleUpdater(prev, elapsedSeconds, t) ==
    IF prev.mode = "WORK" THEN
        [ s |-> [ prev EXCEPT
                    !.workElapsedSeconds = prev.workElapsedSeconds + elapsedSeconds,
                    !.playBalanceHalves  = prev.playBalanceHalves
                                             + MathFloor(elapsedSeconds * PLAY_GAIN_RATE),
                    !.lastTickTimestamp  = t ],
          ended |-> FALSE ]
    ELSE IF prev.mode = "PLAY" THEN
        LET playBalance == Max(0, prev.playBalanceHalves - Sec(elapsedSeconds))
        IN  [ s |-> [ prev EXCEPT
                        !.playBalanceHalves = playBalance,
                        !.mode = IF playBalance = 0 THEN "NOTHING" ELSE "PLAY",
                        !.lastTickTimestamp = t ],
              ended |-> (playBalance = 0) ]
    ELSE
        [ s |-> [ prev EXCEPT !.lastTickTimestamp = t ], ended |-> FALSE ]

\* p3: handleVisibilityChange when visible.  `current' is the `state' of the
\* handler's closure, which gives elapsedSeconds; nothing is queued unless
\* elapsedSeconds > 1.
handleVisibilityChange(current, prev, t) ==
    LET elapsedSeconds == ElapsedSeconds(t, current.lastTickTimestamp)
    IN  IF elapsedSeconds > 1
        THEN VisibleUpdater(prev, elapsedSeconds, t)
        ELSE [ s |-> prev, ended |-> FALSE ]

\* ctx: the snapshot the onSnapshot callback sets from a stored document
SnapshotState(data, t) ==
    [ data EXCEPT !.lastTickTimestamp =
        IF data.lastTickTimestamp = 0 THEN t ELSE data.lastTickTimestamp ]

\* a faulty setMode updater, which starts the work count afresh in the new
\* mode; WorkMonotone must not hold of it
SetModeUpdaterResets(prev, newMode, t) ==
    [ prev EXCEPT !.mode = newMode, !.lastTickTimestamp = t,
                  !.workElapsedSeconds = 0 ]

\* setMode's updater
SetModeUpdater(prev, newMode, t) ==
    [ prev EXCEPT !.mode = newMode, !.lastTickTimestamp = t ]

\* a faulty applyPenalty updater, which subtracts without Math.max(0, ...);
\* PenaltyFloorsEach must not hold of it
PenaltyUpdaterNoFloor(prev, t) ==
    [ prev EXCEPT
        !.workElapsedSeconds = prev.workElapsedSeconds - PENALTY_SECONDS,
        !.playBalanceHalves  = prev.playBalanceHalves
                                 - MathFloor(PENALTY_SECONDS * PLAY_GAIN_RATE),
        !.lastTickTimestamp  = IF variant = "p4" THEN t ELSE @ ]

\* applyPenalty's updater; playPenalty = Math.floor(PENALTY_SECONDS * PLAY_GAIN_RATE);
\* p4 also stamps lastTickTimestamp
PenaltyUpdater(prev, t) ==
    LET newWorkElapsed == Max(0, prev.workElapsedSeconds - PENALTY_SECONDS)
        playPenalty    == MathFloor(PENALTY_SECONDS * PLAY_GAIN_RATE)
        newPlayBalance == Max(0, prev.playBalanceHalves - playPenalty)
    IN  [ prev EXCEPT
            !.workElapsedSeconds = newWorkElapsed,
            !.playBalanceHalves  = newPlayBalance,
            !.lastTickTimestamp  = IF variant = "p4" THEN t ELSE @ ]

\* a faulty addQuest updater, which puts the new quest first;
\* AddQuestAppendsOne must not hold of it
AddQuestUpdaterPrepends(prev, id, title, rewardMinutes, t) ==
    [ prev EXCEPT
        !.quests = << [ id |-> id, title |-> title,
                        rewardMinutes |-> rewardMinutes ] >> \o prev.quests,
        !.lastTickTimestamp = IF variant = "p4" THEN t ELSE @ ]

\* addQuest's updater (p4 also stamps lastTickTimestamp)
AddQuestUpdater(prev, id, title, rewardMinutes, t) ==
    [ prev EXCEPT
        !.quests = Append(prev.quests,
                          [ id |-> id, title |-> title,
                            rewardMinutes |-> rewardMinutes ]),
        !.lastTickTimestamp = IF variant = "p4" THEN t ELSE @ ]

\* a faulty deleteQuest updater, which also drops the items claimed from the
\* quest; DeleteQuestKeepsInventory must not hold of it
DeleteQuestUpdaterCascades(prev, id, t) ==
    [ prev EXCEPT
        !.quests = Filter(prev.quests, [ i \in Ids |-> i # id ]),
        !.inventory = SelectSeq(prev.inventory, LAMBDA it : it.questId # id),
        !.lastTickTimestamp = IF variant = "p4" THEN t ELSE @ ]

\* deleteQuest's updater
DeleteQuestUpdater(prev, id, t) ==
    [ prev EXCEPT
        !.quests = Filter(prev.quests, [ i \in Ids |-> i # id ]),
        !.lastTickTimestamp = IF variant = "p4" THEN t ELSE @ ]

\* a faulty claimQuest updater, which takes the claimed quest off the list;
\* ClaimQuestBanksReward must not hold of it
ClaimQuestUpdaterConsumes(prev, id, quest, t) ==
    [ prev EXCEPT
        !.quests = Filter(prev.quests, [ i \in Ids |-> i # quest.id ]),
        !.inventory = Append(prev.inventory,
                             [ id |-> id, questId |-> quest.id,
                               title |-> quest.title,
                               minutes |-> quest.rewardMinutes,
                               createdAt |-> t ]),
        !.lastTickTimestamp = IF variant = "p4" THEN t ELSE @ ]

\* claimQuest's updater, with the item built before it
ClaimQuestUpdater(prev, id, quest, t) ==
    [ prev EXCEPT
        !.inventory = Append(prev.inventory,
                             [ id |-> id, questId |-> quest.id,
                               title |-> quest.title,
                               minutes |-> quest.rewardMinutes,
                               createdAt |-> t ]),
        !.lastTickTimestamp = IF variant = "p4" THEN t ELSE @ ]

\* a faulty useInventoryItems updater, which also drops the other items
\* claimed from the quests of the selected ones; ClaimsAreIndependent must
\* not hold of it
UseInventoryItemsUpdaterByQuest(prev, ids, t) ==
    LET selectedItems == Filter(prev.inventory, Includes(ids))
        totalMinutes  == SumMinutes(selectedItems)
        totalSeconds  == totalMinutes * 60
        questIds      == { selectedItems[k].questId : k \in DOMAIN selectedItems }
    IN  [ prev EXCEPT
            !.playBalanceHalves = prev.playBalanceHalves + Sec(totalSeconds),
            !.inventory = SelectSeq(prev.inventory,
                                    LAMBDA it : it.questId \notin questIds),
            !.lastTickTimestamp = IF variant = "p4" THEN t ELSE @ ]

\* a faulty useInventoryItems updater, which credits the minutes as seconds;
\* RedeemCreditsSelected must not hold of it
UseInventoryItemsUpdaterMinutes(prev, ids, t) ==
    LET selectedItems == Filter(prev.inventory, Includes(ids))
        totalMinutes  == SumMinutes(selectedItems)
    IN  [ prev EXCEPT
            !.playBalanceHalves = prev.playBalanceHalves + Sec(totalMinutes),
            !.inventory = Filter(prev.inventory, [ i \in Ids |-> i \notin ids ]),
            !.lastTickTimestamp = IF variant = "p4" THEN t ELSE @ ]

\* a faulty useInventoryItems updater, which credits a minute for every
\* identifier listed, in the inventory or not; AbsentIdsIgnored must not
\* hold of it
UseInventoryItemsUpdaterCountsIds(prev, ids, t) ==
    [ prev EXCEPT
        !.playBalanceHalves = prev.playBalanceHalves + Sec(Cardinality(ids) * 60),
        !.inventory = Filter(prev.inventory, [ i \in Ids |-> i \notin ids ]),
        !.lastTickTimestamp = IF variant = "p4" THEN t ELSE @ ]

\* a faulty useInventoryItems updater, which takes the items out and credits
\* nothing; RedeemAllOrNothing must not hold of it
UseInventoryItemsUpdaterDrops(prev, ids, t) ==
    [ prev EXCEPT
        !.inventory = Filter(prev.inventory, [ i \in Ids |-> i \notin ids ]),
        !.lastTickTimestamp = IF variant = "p4" THEN t ELSE @ ]

\* a faulty useInventoryItems updater, which credits the items and leaves
\* them in the inventory; RedeemIdempotent must not hold of it
UseInventoryItemsUpdaterKeeps(prev, ids, t) ==
    LET selectedItems == Filter(prev.inventory, Includes(ids))
        totalMinutes  == SumMinutes(selectedItems)
        totalSeconds  == totalMinutes * 60
    IN  [ prev EXCEPT
            !.playBalanceHalves = prev.playBalanceHalves + Sec(totalSeconds),
            !.lastTickTimestamp = IF variant = "p4" THEN t ELSE @ ]

\* useInventoryItems' updater
UseInventoryItemsUpdater(prev, ids, t) ==
    LET selectedItems == Filter(prev.inventory, Includes(ids))
        totalMinutes  == SumMinutes(selectedItems)
        totalSeconds  == totalMinutes * 60
    IN  [ prev EXCEPT
            !.playBalanceHalves = prev.playBalanceHalves + Sec(totalSeconds),
            !.inventory = Filter(prev.inventory, [ i \in Ids |-> i \notin ids ]),
            !.lastTickTimestamp = IF variant = "p4" THEN t ELSE @ ]

\* p4: saveNow(uid, data): nothing while a load is in flight; the write may fail
SaveNow(rem, data, ok) ==
    IF loading \/ ~ok THEN rem ELSE << data >>

----------------------------------------------------------------------------
(* The session *)

\* ctx: what a session holds of its own: the provider's state and refs, its
\* timers, the snapshot event waiting for it, and `seen', the document as
\* it was when the session last ran
Session ==
    [ user |-> user, visible |-> visible, state |-> state,
      rendered |-> rendered, isHydrated |-> isHydrated,
      hydRendered |-> hydRendered, isInitialLoad |-> isInitialLoad,
      initTimers |-> initTimers, snapPending |-> snapPending,
      sinceTick |-> sinceTick,
      showPlayEndedNotification |-> showPlayEndedNotification,
      seen |-> remote ]

\* a session whose TimerProvider has just mounted
NewSession ==
    [ user |-> FALSE, visible |-> TRUE, state |-> initialState,
      rendered |-> initialState, isHydrated |-> FALSE,
      hydRendered |-> FALSE, isInitialLoad |-> TRUE, initTimers |-> {},
      snapPending |-> FALSE, sinceTick |-> 0,
      showPlayEndedNotification |-> FALSE, seen |-> << >> ]

\* the state after the module is loaded and TimerProvider has mounted
Mounted ==
    /\ peer = NewSession
    /\ reloading = FALSE
    /\ uid = "A"
    /\ otherDoc = << >>
    /\ loads = {}
    /\ owner = "none"
    /\ pendingSave = << >>
    /\ pendingUid = ""
    /\ error = ""
    /\ lastSavedState = << >>
    /\ saveTimeout = -1
    /\ saveArgs = << >>
    /\ now = Epoch
    /\ skewed = FALSE
    /\ user = FALSE
    /\ visible = TRUE
    /\ state = initialState
    /\ rendered = initialState
    /\ isHydrated = FALSE
    /\ hydRendered = FALSE
    /\ syncRender = FALSE
    /\ isInitialLoad = TRUE
    /\ initTimers = {}
    /\ loading = FALSE
    /\ previousMode = "NOTHING"
    /\ remote = << >>
    /\ snapPending = FALSE
    /\ sinceTick = 0
    /\ showPlayEndedNotification = FALSE
    /\ nextId = 1
    /\ fromDoc = FALSE
    /\ lastOp = "init"
    /\ elapsed = 0
    /\ preMode = "NOTHING"

Init == variant \in Variants /\ Mounted

\* the p3 source mounted
InitDebounced == variant = "p3" /\ Mounted

\* history of a step: the operation, the elapsedSeconds it computed
Hist(op, e) ==
    /\ fromDoc' = CASE op \in {"loadNewUser", "onSnapshot"} -> TRUE
                    [] op \in {"signIn", "signOut", "changeUser"} -> FALSE
                    [] OTHER -> fromDoc
    /\ lastOp' = op
    /\ elapsed' = e
    /\ preMode' = state.mode

\* a state update is queued and not yet rendered
NeedsRender == rendered # state \/ hydRendered # isHydrated

\* the timer effect's guard: if (!isHydrated || !user) return
TimerOn == user /\ hydRendered

\* the pages render their buttons once isHydrated, and the user can reach them
PageShown == user /\ hydRendered /\ visible /\ ~syncRender

\* a callback from outside React can run: React has rendered what the
\* callbacks before it queued
Idle == ~syncRender /\ ~NeedsRender

\* useAuth() hands a user over: the load effect subscribes (ctx) or starts
\* loadFromFirestore (p4, p3); the timer effect re-runs because user changed
SignIn ==
    /\ Idle /\ ~user
    /\ user' = TRUE
    /\ snapPending' = (variant = "ctx")
    /\ loading' = (variant \in {"p4", "p3", "p2"} \/ loading)
    /\ loads' = IF variant \in {"p4", "p3", "p2"} THEN loads \cup {uid}
                ELSE loads
    /\ sinceTick' = 0
    /\ Hist("signIn", 0)
    /\ UNCHANGED << variant, peer, pendingSave, pendingUid, uid, otherDoc, owner, reloading, error, lastSavedState, saveTimeout, saveArgs, now, skewed, visible, state, rendered, isHydrated,
                    hydRendered, syncRender, isInitialLoad, initTimers,
                    previousMode, remote, showPlayEndedNotification, nextId >>

\* a faulty logout, which keeps the snapshot in memory; SignedOutIsDefault
\* must not hold of it
SignOutKeepsSnapshot ==
    /\ Idle /\ user
    /\ user' = FALSE
    /\ lastSavedState' = << >>
    /\ isHydrated' = FALSE
    /\ hydRendered' = FALSE
    /\ isInitialLoad' = TRUE
    /\ snapPending' = FALSE
    /\ sinceTick' = 0
    /\ Hist("signOut", 0)
    /\ UNCHANGED << variant, peer, pendingSave, pendingUid, uid, otherDoc, loads, owner, reloading, error, saveTimeout, saveArgs, now, skewed,
                    visible, state, rendered, syncRender, initTimers,
                    loading, previousMode, remote,
                    showPlayEndedNotification, nextId >>

\* useAuth() hands null over: setState(initialState), setIsHydrated(false),
\* and in ctx isInitialLoad.current = true and unsubscribe(), in p3
\* lastSavedState.current = ""
SignOut ==
    /\ Idle /\ user
    /\ user' = FALSE
    /\ lastSavedState' = << >>
    /\ state' = initialState
    /\ owner' = "none"
    /\ rendered' = initialState
    /\ isHydrated' = FALSE
    /\ hydRendered' = FALSE
    /\ isInitialLoad' = TRUE
    /\ snapPending' = FALSE
    /\ sinceTick' = 0
    /\ Hist("signOut", 0)
    /\ UNCHANGED << variant, peer, pendingSave, pendingUid, uid, otherDoc, loads, reloading, error, saveTimeout, saveArgs, now, skewed, visible, syncRender, initTimers,
                    loading, previousMode, remote, showPlayEndedNotification,
                    nextId >>

\* while nobody is signed in, the other account becomes the one that signs
\* in next: `remote' is from now on that account's document
SwitchAccount ==
    /\ Idle /\ ~user /\ variant \in {"ctx", "p4"}
    /\ uid' = Other(uid)
    /\ remote' = otherDoc
    /\ otherDoc' = remote
    /\ Hist("switchAccount", 0)
    /\ UNCHANGED << variant, peer, pendingSave, pendingUid, loads, owner, reloading, error, lastSavedState,
                    saveTimeout, saveArgs, now, skewed, user, visible, state,
                    rendered, isHydrated, hydRendered, syncRender,
                    isInitialLoad, initTimers, loading, previousMode,
                    snapPending, sinceTick, showPlayEndedNotification,
                    nextId >>

\* useAuth() hands a different user over while one is signed in: the render
\* re-runs the effects that depend on user.  ctx: the listener is replaced,
\* the save effect writes the state to the new user's document unless
\* isInitialLoad.current, the timer effect catches up and re-arms.  p4:
\* loadFromFirestore starts for the new user, whose flag blocks saveNow.
ChangeUser ==
    LET saves   == variant = "ctx" /\ isHydrated /\ ~isInitialLoad
        elapsedSeconds == ElapsedSeconds(now, state.lastTickTimestamp)
        catches == saves /\ elapsedSeconds > 1
        r       == CatchUpUpdater(state, elapsedSeconds, now)
    IN  /\ Idle /\ user /\ variant \in {"ctx", "p4"}
        /\ uid' = Other(uid)
        /\ remote' = IF saves THEN << state >> ELSE otherDoc
        /\ otherDoc' = remote
        /\ snapPending' = (variant = "ctx")
        /\ loads' = IF variant = "p4" THEN loads \cup {Other(uid)} ELSE loads
        /\ loading' = (variant = "p4" \/ loading)
        /\ state' = IF catches THEN r.s ELSE state
        /\ showPlayEndedNotification' =
               (showPlayEndedNotification \/ (catches /\ r.ended))
        /\ sinceTick' = 0
        /\ Hist("changeUser", IF catches THEN elapsedSeconds ELSE 0)
        /\ UNCHANGED << variant, peer, pendingSave, pendingUid, owner, reloading, error, lastSavedState,
                        saveTimeout, saveArgs, now, skewed, user, visible,
                        rendered, isHydrated, hydRendered, syncRender,
                        isInitialLoad, initTimers, previousMode, nextId >>

\* ctx: the onSnapshot callback
OnSnapshot ==
    /\ Idle /\ variant = "ctx" /\ user /\ snapPending
    /\ IF remote # << >>
       THEN /\ state' = SnapshotState(remote[1], now)
            /\ remote' = remote
            /\ snapPending' = FALSE
       ELSE /\ state' = state
            /\ remote' = << [ initialState EXCEPT !.lastTickTimestamp = now ] >>
            /\ snapPending' = TRUE
    /\ owner' = IF remote # << >> THEN uid ELSE owner
    /\ isHydrated' = TRUE
    /\ initTimers' = initTimers \cup {0}
    /\ Hist("onSnapshot", 0)
    /\ UNCHANGED << variant, peer, pendingSave, pendingUid, uid, otherDoc, loads, reloading, error, lastSavedState, saveTimeout, saveArgs, now, skewed, user, visible, rendered, hydRendered,
                    syncRender, isInitialLoad, loading, previousMode, sinceTick,
                    showPlayEndedNotification, nextId >>

\* ctx: setTimeout(() => { isInitialLoad.current = false }, 500) fires; it
\* is never cleared, so it also fires after a sign-out
InitialLoadTimeout ==
    /\ Idle /\ InitialLoadDelayMs \in initTimers
    /\ isInitialLoad' = FALSE
    /\ initTimers' = initTimers \ {InitialLoadDelayMs}
    /\ Hist("initialLoadTimeout", 0)
    /\ UNCHANGED << variant, peer, pendingSave, pendingUid, uid, otherDoc, loads, owner, reloading, error, lastSavedState, saveTimeout, saveArgs, now, skewed, user, visible, state, rendered,
                    isHydrated, hydRendered, syncRender, loading, previousMode,
                    remote, snapPending, sinceTick, showPlayEndedNotification,
                    nextId >>

\* a faulty load, which leaves the provider unhydrated when getDoc throws;
\* FailuresAreHarmless must not hold of it
LoadFromFirestoreStaysUnhydrated(ok) ==
    \E u \in loads :
        LET stored   == IF u = uid THEN remote ELSE otherDoc
            newState == IF variant = "p4" THEN LoadedState(stored[1], now)
                        ELSE LoadedStateP3(stored[1], now)
            created  == [ initialState EXCEPT !.lastTickTimestamp = now ]
        IN  /\ Idle /\ variant \in {"p4", "p3", "p2"}
            /\ IF ok /\ stored # << >>
               THEN /\ state' = newState
                    /\ rendered' = IF variant \in {"p4", "p2"} THEN newState
                                    ELSE rendered
                    /\ lastSavedState' = IF variant = "p3" THEN << newState >>
                                         ELSE lastSavedState
                    /\ UNCHANGED << remote, otherDoc >>
                    /\ owner' = u
                    /\ fromDoc' = (u = uid)
                    /\ lastOp' = "loadFromFirestore"
                    /\ elapsed' = ElapsedSeconds(now, SnapshotState(stored[1], now).lastTickTimestamp)
                    /\ preMode' = stored[1].mode
               ELSE IF ok
               THEN /\ state' = created
                    /\ rendered' = IF variant \in {"p4", "p2"} THEN created
                                    ELSE rendered
                    /\ lastSavedState' = IF variant = "p3" THEN << created >>
                                         ELSE lastSavedState
                    /\ remote' = IF u = uid THEN << created >> ELSE remote
                    /\ otherDoc' = IF u = uid THEN otherDoc ELSE << created >>
                    /\ owner' = u
                    /\ Hist("loadNewUser", 0)
               ELSE /\ UNCHANGED << state, rendered, remote, otherDoc,
                                    lastSavedState, owner >>
                    /\ Hist("loadError", 0)
            /\ loads' = loads \ {u}
            /\ loading' = FALSE
            /\ isHydrated' = (ok \/ isHydrated)
            /\ syncRender' = TRUE
            /\ UNCHANGED << variant, peer, pendingSave, pendingUid, reloading, uid, error, saveTimeout,
                            saveArgs, now, skewed, user, visible, hydRendered,
                            isInitialLoad, initTimers, previousMode,
                            snapPending, sinceTick, showPlayEndedNotification,
                            nextId >>

\* p4, p3, p2: getDoc resolves (ok) or the load throws; loadFromFirestore
\* runs to its end.  p4 and p2 also assign stateRef.current, p3
\* lastSavedState.current.  p2's load builds its snapshot as p3's does.
LoadFromFirestore(ok) ==
    \E u \in loads :
        LET stored   == IF u = uid THEN remote ELSE otherDoc
            newState == IF variant = "p4" THEN LoadedState(stored[1], now)
                        ELSE LoadedStateP3(stored[1], now)
            created  == [ initialState EXCEPT !.lastTickTimestamp = now ]
        IN  /\ Idle /\ variant \in {"p4", "p3", "p2"}
            /\ IF ok /\ stored # << >>
               THEN /\ state' = newState
                    /\ rendered' = IF variant \in {"p4", "p2"} THEN newState
                                    ELSE rendered
                    /\ lastSavedState' = IF variant = "p3" THEN << newState >>
                                         ELSE lastSavedState
                    /\ UNCHANGED << remote, otherDoc >>
                    /\ owner' = u
                    /\ fromDoc' = (u = uid)
                    /\ lastOp' = "loadFromFirestore"
                    /\ elapsed' = ElapsedSeconds(now, SnapshotState(stored[1], now).lastTickTimestamp)
                    /\ preMode' = stored[1].mode
               ELSE IF ok
               THEN /\ state' = created
                    /\ rendered' = IF variant \in {"p4", "p2"} THEN created
                                    ELSE rendered
                    /\ lastSavedState' = IF variant = "p3" THEN << created >>
                                         ELSE lastSavedState
                    /\ remote' = IF u = uid THEN << created >> ELSE remote
                    /\ otherDoc' = IF u = uid THEN otherDoc ELSE << created >>
                    /\ owner' = u
                    /\ Hist("loadNewUser", 0)
               ELSE /\ UNCHANGED << state, rendered, remote, otherDoc,
                                    lastSavedState, owner >>
                    /\ Hist("loadError", 0)
            /\ loads' = loads \ {u}
            /\ loading' = FALSE
            /\ isHydrated' = TRUE
            /\ syncRender' = TRUE
            /\ UNCHANGED << variant, peer, pendingSave, pendingUid, reloading, uid, error, saveTimeout,
                            saveArgs, now, skewed, user, visible, hydRendered,
                            isInitialLoad, initTimers, previousMode,
                            snapPending, sinceTick, showPlayEndedNotification,
                            nextId >>

\* a faulty render, whose timer effect leaves the interval running when
\* only lastTickTimestamp changed; SessionsDoNotMultiplyTime must not hold
\* of it
RenderCtxKeepsInterval ==
    LET changed     == state # rendered \/ isHydrated # hydRendered
        saves       == user /\ isHydrated /\ ~isInitialLoad /\ changed
        depsChanged == \/ isHydrated # hydRendered
                       \/ state.lastTickTimestamp # rendered.lastTickTimestamp
                       \/ state.mode # rendered.mode
        elapsedSeconds == ElapsedSeconds(now, state.lastTickTimestamp)
        catches     == /\ depsChanged /\ isHydrated /\ user
                       /\ elapsedSeconds > 1 /\ ~isInitialLoad
        r           == CatchUpUpdater(state, elapsedSeconds, now)
    IN  /\ rendered' = state
        /\ hydRendered' = isHydrated
        /\ remote' = IF saves THEN << state >> ELSE remote
        /\ snapPending' = (snapPending \/ (saves /\ remote # << state >>))
        /\ state' = IF catches THEN r.s ELSE state
        /\ showPlayEndedNotification' =
               (showPlayEndedNotification \/ (catches /\ r.ended))
        /\ sinceTick' = IF isHydrated # hydRendered \/ state.mode # rendered.mode
                        THEN 0 ELSE sinceTick
        /\ IF catches THEN Hist("catchUp", elapsedSeconds) ELSE Hist("render", 0)
        /\ syncRender' = FALSE
        /\ UNCHANGED << previousMode, saveTimeout, saveArgs, pendingSave,
                        pendingUid >>

\* ctx: a render and the effects it runs.  The save effect writes the
\* rendered state; the timer effect, when its dependencies changed, queues
\* the catch-up and re-arms the interval.
RenderCtx ==
    LET changed     == state # rendered \/ isHydrated # hydRendered
        saves       == user /\ isHydrated /\ ~isInitialLoad /\ changed
        depsChanged == \/ isHydrated # hydRendered
                       \/ state.lastTickTimestamp # rendered.lastTickTimestamp
                       \/ state.mode # rendered.mode
        elapsedSeconds == ElapsedSeconds(now, state.lastTickTimestamp)
        catches     == /\ depsChanged /\ isHydrated /\ user
                       /\ elapsedSeconds > 1 /\ ~isInitialLoad
        r           == CatchUpUpdater(state, elapsedSeconds, now)
    IN  /\ rendered' = state
        /\ hydRendered' = isHydrated
        /\ remote' = IF saves THEN << state >> ELSE remote
        /\ snapPending' = (snapPending \/ (saves /\ remote # << state >>))
        /\ state' = IF catches THEN r.s ELSE state
        /\ showPlayEndedNotification' =
               (showPlayEndedNotification \/ (catches /\ r.ended))
        /\ sinceTick' = IF depsChanged THEN 0 ELSE sinceTick
        /\ IF catches THEN Hist("catchUp", elapsedSeconds) ELSE Hist("render", 0)
        /\ syncRender' = FALSE
        /\ UNCHANGED << previousMode, saveTimeout, saveArgs, pendingSave,
                        pendingUid >>

\* p4: the snapshot the visibility effect builds from the pending save of
\* localStorage, caught up to Date.now()
RestoredState(pendingData, t) ==
    LET elapsedSeconds == ElapsedSeconds(t, pendingData.lastTickTimestamp)
        playBalance    == Max(0, pendingData.playBalanceHalves
                                   - Sec(elapsedSeconds))
    IN  IF elapsedSeconds > 0 /\ pendingData.mode = "WORK" THEN
            [ pendingData EXCEPT
                !.workElapsedSeconds = @ + elapsedSeconds,
                !.playBalanceHalves  = @ + elapsedSeconds * PLAY_GAIN_RATE,
                !.lastTickTimestamp  = t ]
        ELSE IF elapsedSeconds > 0 /\ pendingData.mode = "PLAY" THEN
            [ pendingData EXCEPT
                !.playBalanceHalves = playBalance,
                !.mode = IF playBalance = 0 THEN "NOTHING" ELSE "PLAY",
                !.lastTickTimestamp = t ]
        ELSE [ pendingData EXCEPT !.lastTickTimestamp = t ]

\* p4, p2: a render (stateRef.current = state) and the effects it runs: the
\* save on mode change, the interval armed once hydrated, and the
\* visibility effect, which looks for a pending save when it is set up: p4
\* restores it when it is newer than stateRef.current, p2 writes it to the
\* document.  (The effect is also set up when user changes; in the runs
\* with a pending save the provider is hydrated after the user signs in.)
RenderP4(ok) ==
    LET saves     == /\ user /\ isHydrated /\ ~loading
                     /\ state.mode # previousMode
        saved     == IF saves THEN SaveNow(remote, state, ok) ELSE remote
        examines  == /\ user /\ isHydrated /\ ~hydRendered
                     /\ pendingSave # << >> /\ pendingUid = uid
        pendingData   == pendingSave[1]
        restoredState == RestoredState(pendingData, now)
        restores  == /\ examines /\ variant = "p4"
                     /\ pendingData.lastTickTimestamp > state.lastTickTimestamp
    IN  /\ rendered' = IF restores THEN restoredState ELSE state
        /\ state' = IF restores THEN restoredState ELSE state
        /\ syncRender' = restores
        /\ hydRendered' = isHydrated
        /\ previousMode' = IF saves THEN state.mode ELSE previousMode
        /\ remote' = IF restores THEN SaveNow(saved, restoredState, ok)
                     ELSE IF examines /\ variant = "p2"
                     THEN SaveNow(saved, pendingData, ok)
                     ELSE saved
        /\ pendingSave' = IF examines THEN << >> ELSE pendingSave
        /\ pendingUid' = IF examines THEN "" ELSE pendingUid
        /\ sinceTick' = IF isHydrated # hydRendered THEN 0 ELSE sinceTick
        /\ Hist("render", 0)
        /\ UNCHANGED << snapPending, showPlayEndedNotification,
                        saveTimeout, saveArgs >>

\* p3: a render and the effects it runs: the save effect calls the
\* debounced saveToFirestore, which re-arms its 2 s timeout; the interval
\* is armed once hydrated
RenderP3 ==
    LET changed == state # rendered \/ isHydrated # hydRendered
        calls   == user /\ isHydrated /\ ~loading /\ changed
    IN  /\ rendered' = state
        /\ hydRendered' = isHydrated
        /\ saveTimeout' = IF calls THEN 0 ELSE saveTimeout
        /\ saveArgs' = IF calls THEN << state >> ELSE saveArgs
        /\ sinceTick' = IF isHydrated # hydRendered THEN 0 ELSE sinceTick
        /\ Hist("render", 0)
        /\ syncRender' = FALSE
        /\ UNCHANGED << state, remote, previousMode, snapPending,
                        showPlayEndedNotification, pendingSave, pendingUid >>

Render(ok) ==
    /\ NeedsRender \/ syncRender
    /\ CASE variant = "ctx" -> RenderCtx
         [] variant \in {"p4", "p2"} -> RenderP4(ok)
         [] variant = "p3"  -> RenderP3
    /\ UNCHANGED << variant, peer, uid, otherDoc, loads, owner, reloading, error,
                    lastSavedState, now, skewed, user, visible, isHydrated,
                    isInitialLoad, initTimers, loading, nextId >>

\* the setInterval callback; p4 returns at once while the page is hidden
Tick ==
    /\ Idle /\ TimerOn /\ sinceTick >= TickIntervalMs
    /\ sinceTick' = 0
    /\ IF variant = "p4" /\ ~visible
       THEN /\ Hist("tickHidden", 0)
            /\ UNCHANGED << state, showPlayEndedNotification >>
       ELSE LET r == TickUpdater(state, now)
            IN  /\ state' = r.s
                /\ showPlayEndedNotification' =
                       (showPlayEndedNotification \/ r.ended)
                /\ Hist("tick", ElapsedSeconds(now, state.lastTickTimestamp))
    /\ UNCHANGED << variant, peer, pendingSave, pendingUid, uid, otherDoc, loads, owner, reloading, error, lastSavedState, saveTimeout, saveArgs, now, skewed, user, visible, rendered, isHydrated,
                    hydRendered, syncRender, isInitialLoad, initTimers,
                    loading, previousMode, remote, snapPending, nextId >>

\* p3: the debounce timeout fires and runs saveToFirestore(userId, data)
SaveToFirestore(ok) ==
    LET writes == ~loading /\ saveArgs # lastSavedState /\ ok
    IN  /\ Idle /\ saveTimeout = SaveDelayMs
        /\ saveTimeout' = -1
        /\ saveArgs' = << >>
        /\ remote' = IF writes THEN saveArgs ELSE remote
        /\ lastSavedState' = IF writes THEN saveArgs ELSE lastSavedState
        /\ Hist(IF writes THEN "saveToFirestore" ELSE "saveSkipped", 0)
        /\ UNCHANGED << variant, peer, pendingSave, pendingUid, uid, otherDoc, loads, owner, reloading, error, now, skewed, user, visible, state, rendered,
                        isHydrated, hydRendered, syncRender, isInitialLoad,
                        initTimers, loading, previousMode, snapPending,
                        sinceTick, showPlayEndedNotification, nextId >>

\* p4, p2: the beforeunload handler writes stateRef.current (p4: stamped
\* with Date.now()) and user.uid to localStorage
HandleBeforeUnload ==
    /\ Idle /\ variant \in {"p4", "p2"} /\ user /\ hydRendered
    /\ pendingSave' = IF variant = "p4"
                      THEN << [ rendered EXCEPT !.lastTickTimestamp = now ] >>
                      ELSE << rendered >>
    /\ pendingUid' = uid
    /\ Hist("beforeUnload", 0)
    /\ UNCHANGED << variant, peer, uid, otherDoc, loads, owner, reloading, error,
                    lastSavedState, saveTimeout, saveArgs, now, skewed, user,
                    visible, state, rendered, isHydrated, hydRendered,
                    syncRender, isInitialLoad, initTimers, loading,
                    previousMode, remote, snapPending, sinceTick,
                    showPlayEndedNotification, nextId >>

\* p4, p2: the page is left and loaded again: the module is evaluated
\* (initialState.lastTickTimestamp = Date.now()), TimerProvider mounts with
\* user null; callbacks and requests of the old page are gone; localStorage
\* and the documents stay.  (No sign-out follows in the runs with a page
\* load, so the later initialState is not read again.)
PageLoad ==
    /\ Idle /\ variant \in {"p4", "p2"}
    /\ state' = [ initialState EXCEPT !.lastTickTimestamp = now ]
    /\ rendered' = [ initialState EXCEPT !.lastTickTimestamp = now ]
    /\ user' = FALSE
    /\ visible' = TRUE
    /\ isHydrated' = FALSE
    /\ hydRendered' = FALSE
    /\ syncRender' = FALSE
    /\ isInitialLoad' = TRUE
    /\ initTimers' = {}
    /\ loading' = FALSE
    /\ loads' = {}
    /\ reloading' = FALSE
    /\ previousMode' = "NOTHING"
    /\ snapPending' = FALSE
    /\ sinceTick' = 0
    /\ showPlayEndedNotification' = FALSE
    /\ error' = ""
    /\ lastSavedState' = << >>
    /\ saveTimeout' = -1
    /\ saveArgs' = << >>
    /\ owner' = "none"
    /\ Hist("pageLoad", 0)
    /\ UNCHANGED << variant, peer, pendingSave, pendingUid, uid, otherDoc, now,
                    skewed, remote, nextId >>

\* visibilitychange to hidden.  p4's handler saves stateRef.current stamped
\* with Date.now(); p2's saves stateRef.current; p3's writes the `state' of
\* its closure; ctx has no handler
VisibilityHidden(ok) ==
    LET listens == user /\ hydRendered
    IN  /\ Idle /\ visible
        /\ visible' = FALSE
        /\ remote' =
               CASE variant = "p4" /\ listens ->
                        SaveNow(remote,
                                [ rendered EXCEPT !.lastTickTimestamp = now ], ok)
                 [] variant = "p2" /\ listens -> SaveNow(remote, rendered, ok)
                 [] variant = "p3" /\ listens /\ ok -> << rendered >>
                 [] OTHER -> remote
        /\ lastSavedState' = IF variant = "p3" /\ listens /\ ok
                             THEN << rendered >> ELSE lastSavedState
        /\ Hist("hidden", 0)
        /\ UNCHANGED << variant, peer, pendingSave, pendingUid, uid, otherDoc, loads, owner, reloading, error, saveTimeout, saveArgs, now, skewed, user,
                        state, rendered, isHydrated, hydRendered, syncRender,
                        isInitialLoad, initTimers, loading, previousMode,
                        snapPending, sinceTick, showPlayEndedNotification,
                        nextId >>

\* visibilitychange to visible.  p4's handler calls calculateElapsedTime,
\* p3's computes the gap from the `state' of its closure, p2's sets
\* isLoadingFromFirestore.current and awaits getDoc; ctx has no handler
VisibilityVisible ==
    LET listens == user /\ hydRendered
        reloads == variant = "p2" /\ listens
    IN  /\ Idle /\ ~visible
        /\ visible' = TRUE
        /\ loading' = (reloads \/ loading)
        /\ reloading' = reloads
        /\ IF variant = "p4" /\ listens
           THEN LET r == calculateElapsedTime(rendered, state, now)
                IN  /\ state' = r.s
                    /\ showPlayEndedNotification' =
                           (showPlayEndedNotification \/ r.ended)
                    /\ Hist("calculateElapsedTime",
                            ElapsedSeconds(now, rendered.lastTickTimestamp))
           ELSE IF variant = "p3" /\ listens
           THEN LET r == handleVisibilityChange(rendered, state, now)
                IN  /\ state' = r.s
                    /\ showPlayEndedNotification' =
                           (showPlayEndedNotification \/ r.ended)
                    /\ Hist("handleVisibilityChange",
                            ElapsedSeconds(now, rendered.lastTickTimestamp))
           ELSE /\ UNCHANGED << state, showPlayEndedNotification >>
                /\ Hist("visible", 0)
        /\ UNCHANGED << variant, peer, pendingSave, pendingUid, uid, otherDoc, loads, owner, error, lastSavedState, saveTimeout, saveArgs, now,
                        skewed, user, rendered, isHydrated, hydRendered,
                        syncRender, isInitialLoad, initTimers,
                        previousMode, remote, snapPending, sinceTick, nextId >>

\* p2: the getDoc of the visible handler resolves (ok) or throws, and the
\* handler runs to its end: the stored document, caught up to Date.now(),
\* replaces the snapshot and stateRef.current
ReloadFromFirestore(ok) ==
    LET data     == remote[1]
        newState == LoadedStateP3(data, now)
        elapsedSeconds ==
            ElapsedSeconds(now, IF data.lastTickTimestamp = 0 THEN now
                                ELSE data.lastTickTimestamp)
        ended    == /\ elapsedSeconds > 0 /\ data.mode = "PLAY"
                    /\ newState.playBalanceHalves = 0
    IN  /\ Idle /\ variant = "p2" /\ reloading
        /\ IF ok /\ remote # << >>
           THEN /\ state' = newState
                /\ rendered' = newState
                /\ showPlayEndedNotification' =
                       (showPlayEndedNotification \/ ended)
                /\ Hist("reloadFromFirestore", elapsedSeconds)
           ELSE /\ UNCHANGED << state, rendered, showPlayEndedNotification >>
                /\ Hist("reloadError", 0)
        /\ owner' = IF ok /\ remote # << >> THEN uid ELSE owner
        /\ loading' = FALSE
        /\ reloading' = FALSE
        /\ syncRender' = (ok /\ remote # << >>)
        /\ UNCHANGED << variant, peer, pendingSave, pendingUid, uid, otherDoc, loads, error, lastSavedState, saveTimeout, saveArgs,
                        now, skewed, user, visible, isHydrated, hydRendered,
                        isInitialLoad, initTimers, previousMode, remote,
                        snapPending, sinceTick, nextId >>

\* a React event handler queued the updater that gives `s'; a p4 updater
\* that called saveNow leaves `rem' in the store
Click(s, rem, op) ==
    /\ state' = s
    /\ remote' = rem
    /\ syncRender' = TRUE
    /\ Hist(op, 0)
    /\ UNCHANGED << variant, peer, pendingSave, pendingUid, uid, otherDoc, loads, owner, reloading, lastSavedState, saveTimeout, saveArgs, now, skewed, user, visible, rendered, isHydrated,
                    hydRendered, isInitialLoad, initTimers, loading,
                    previousMode, snapPending, sinceTick,
                    showPlayEndedNotification >>

\* what a p4 updater's `if (user) saveNow(user.uid, newState)' leaves
Saved(s, ok) ==
    IF variant = "p4" /\ user THEN SaveNow(remote, s, ok) ELSE remote

\* a faulty setMode, which switches without looking at the balance;
\* SetModePlayRejected must not hold of it
SetModeUnguarded(newMode) ==
    /\ PageShown
    /\ Click(SetModeUpdater(state, newMode, now), remote, "setMode")
    /\ UNCHANGED << nextId, error >>

\* setMode(newMode): ctx and p3 read state.playBalanceSeconds of the closure,
\* p4 reads stateRef.current; both are the last render's snapshot.  A
\* rejected call shows alert(...) and returns (lastOp "setModeRejected").
SetMode(newMode) ==
    /\ PageShown
    /\ IF newMode = "PLAY" /\ rendered.playBalanceHalves <= 0
       THEN /\ Hist("setModeRejected", 0)
            /\ UNCHANGED << variant, peer, pendingSave, pendingUid, uid, otherDoc, loads, owner, reloading, error, lastSavedState, saveTimeout, saveArgs, now, skewed, user, visible, state,
                            rendered, isHydrated, hydRendered, syncRender,
                            isInitialLoad, initTimers, loading, previousMode,
                            remote, snapPending, sinceTick,
                            showPlayEndedNotification >>
       ELSE Click(SetModeUpdater(state, newMode, now), remote, "setMode")
    /\ UNCHANGED << nextId, error >>

\* applyPenalty()
ApplyPenalty(ok) ==
    /\ PageShown
    /\ Click(PenaltyUpdater(state, now),
             Saved(PenaltyUpdater(state, now), ok), "applyPenalty")
    /\ UNCHANGED << nextId, error >>

\* addQuest(title, rewardMinutes)
AddQuest(title, rewardMinutes, ok) ==
    /\ PageShown /\ nextId <= MaxIds
    /\ nextId' = nextId + 1
    /\ UNCHANGED error
    /\ LET s == AddQuestUpdater(state, nextId, title, rewardMinutes, now)
       IN  Click(s, Saved(s, ok), "addQuest")

\* deleteQuest(id)
DeleteQuest(id, ok) ==
    /\ PageShown
    /\ LET s == DeleteQuestUpdater(state, id, now)
       IN  Click(s, Saved(s, ok), "deleteQuest")
    /\ UNCHANGED << nextId, error >>

\* claimQuest(quest), for the k-th quest the page shows
ClaimQuest(k, ok) ==
    /\ PageShown /\ nextId <= MaxIds
    /\ k \in 1 .. Len(rendered.quests)
    /\ nextId' = nextId + 1
    /\ UNCHANGED error
    /\ LET s == ClaimQuestUpdater(state, nextId, rendered.quests[k], now)
       IN  Click(s, Saved(s, ok), "claimQuest")

\* useInventoryItems(ids)
UseInventoryItems(ids, ok) ==
    /\ PageShown
    /\ LET s == UseInventoryItemsUpdater(state, ids, now)
       IN  Click(s, Saved(s, ok), "useInventoryItems")
    /\ UNCHANGED << nextId, error >>

\* AddQuestPage is mounted under AppShell, which shows a protected page
\* only to a signed-in user; the page does not wait for isHydrated
FormShown == user /\ visible /\ ~syncRender

\* what handleSubmit makes of the form's fields, for every pair of inputs:
\* the message of the validation that fails ("" when none does) and the
\* arguments title.trim() and minutes it would call addQuest with
Validated ==
    [ title \in TitleInputs, rewardMinutes \in RewardTexts |->
        LET minutes == parseInt(rewardMinutes)
        IN  [ error   |-> IF trim(title) = << >>
                          THEN TitleRequired
                          ELSE IF minutes.isNaN \/ minutes.value <= 0
                               THEN MinutesInvalid
                               ELSE "",
              title   |-> trim(title),
              minutes |-> minutes.value ] ]

\* handleSubmit of the add-quest form with `title' and `rewardMinutes' in its
\* fields: setError(""), the two validations, then addQuest(title.trim(),
\* minutes)
HandleSubmit(title, rewardMinutes, ok) ==
    /\ FormShown
    /\ LET v == Validated[title, rewardMinutes]
       IN  IF v.error # ""
           THEN /\ error' = v.error
                /\ Hist("submitRejected", 0)
                /\ UNCHANGED << variant, peer, pendingSave, pendingUid, uid, otherDoc, loads, owner, reloading, lastSavedState, saveTimeout,
                                saveArgs, now, skewed, user, visible, state,
                                rendered, isHydrated, hydRendered,
                                syncRender, isInitialLoad, initTimers,
                                loading, previousMode, remote, snapPending,
                                sinceTick, showPlayEndedNotification,
                                nextId >>
           ELSE /\ nextId <= MaxIds
                /\ nextId' = nextId + 1
                /\ error' = ""
                /\ LET s == AddQuestUpdater(state, nextId, v.title,
                                            v.minutes, now)
                   IN  Click(s, Saved(s, ok), "addQuest")

\* dismissPlayEndedNotification()
DismissPlayEndedNotification ==
    /\ PageShown /\ showPlayEndedNotification
    /\ showPlayEndedNotification' = FALSE
    /\ Hist("dismiss", 0)
    /\ UNCHANGED << variant, peer, pendingSave, pendingUid, uid, otherDoc, loads, owner, reloading, error, lastSavedState, saveTimeout, saveArgs, now, skewed, user, visible, state, rendered,
                    isHydrated, hydRendered, syncRender, isInitialLoad,
                    initTimers, loading, previousMode, remote, snapPending,
                    sinceTick, nextId >>

\* ctx: the other session has nothing left to do at this instant: it has
\* rendered, the last write to the document has been delivered to its
\* listener, and its 500 ms timeout is not due
PeerIdle ==
    /\ peer.rendered = peer.state /\ peer.hydRendered = peer.isHydrated
    /\ ~peer.snapPending /\ ~(peer.user /\ peer.seen # remote)
    /\ InitialLoadDelayMs \notin peer.initTimers

\* ctx: the other session of the account runs next.  Each session keeps
\* its own provider; the document, the account and the wall clock are
\* shared.  A session that is subscribed finds a snapshot event waiting
\* when the document was written while the other one ran.
SwitchSession ==
    /\ variant = "ctx" /\ ~syncRender
    /\ peer' = Session
    /\ user' = peer.user
    /\ visible' = peer.visible
    /\ state' = peer.state
    /\ rendered' = peer.rendered
    /\ isHydrated' = peer.isHydrated
    /\ hydRendered' = peer.hydRendered
    /\ isInitialLoad' = peer.isInitialLoad
    /\ initTimers' = peer.initTimers
    /\ snapPending' = (peer.snapPending \/ (peer.user /\ peer.seen # remote))
    /\ sinceTick' = peer.sinceTick
    /\ showPlayEndedNotification' = peer.showPlayEndedNotification
    /\ lastOp' = "switchSession" /\ elapsed' = 0 /\ preMode' = peer.state.mode
    /\ UNCHANGED << variant, reloading, uid, otherDoc, loads, owner,
                    pendingSave, pendingUid, error, lastSavedState,
                    saveTimeout, saveArgs, now, skewed, syncRender, loading,
                    previousMode, remote, nextId, fromDoc >>

\* Real time passes by TimeStep, up to `limit' seconds.  Queued renders,
\* Firestore deliveries and due timeouts (ctx's 500 ms, p3's debounce) run
\* first.
AdvanceTime(limit) ==
    /\ Idle /\ ~snapPending /\ loads = {}
    /\ InitialLoadDelayMs \notin initTimers
    /\ saveTimeout # SaveDelayMs
    /\ PeerIdle
    /\ RealTime + TimeStep <= Epoch + limit * 1000
    /\ now' = now + TimeStep
    /\ saveTimeout' = IF saveTimeout < 0 THEN saveTimeout
                      ELSE Min(saveTimeout + TimeStep, SaveDelayMs)
    /\ sinceTick' = Min(sinceTick + TimeStep, TickIntervalMs)
    /\ initTimers' = { Min(a + TimeStep, InitialLoadDelayMs) : a \in initTimers }
    /\ peer' = [ peer EXCEPT
                    !.sinceTick = IF peer.user
                                  THEN Min(@ + TimeStep, TickIntervalMs) ELSE @,
                    !.initTimers = { Min(a + TimeStep, InitialLoadDelayMs) : a \in @ } ]
    /\ Hist("advanceTime", 0)
    /\ UNCHANGED << variant, pendingSave, pendingUid, uid, otherDoc, loads, owner, reloading, error, lastSavedState, saveArgs, skewed, user, visible, state, rendered,
                    isHydrated, hydRendered, syncRender, isInitialLoad,
                    loading, previousMode, remote, snapPending,
                    showPlayEndedNotification, nextId >>

\* the wall clock is set back (once)
ClockBack ==
    /\ Idle /\ ~skewed
    /\ skewed' = TRUE
    /\ now' = now - JumpBackMs
    /\ Hist("clockBack", 0)
    /\ UNCHANGED << variant, peer, pendingSave, pendingUid, uid, otherDoc, loads, owner, reloading, error, lastSavedState, saveTimeout, saveArgs, user, visible, state, rendered, isHydrated,
                    hydRendered, syncRender, isInitialLoad, initTimers,
                    loading, previousMode, remote, snapPending, sinceTick,
                    showPlayEndedNotification, nextId >>

----------------------------------------------------------------------------
(* Specifications *)

\* the timer steps both sources share; `outcomes' are the results a
\* Firestore write may have
TimerNext(outcomes, limit) ==
    \/ SignIn
    \/ SignOut
    \/ \E ok \in outcomes : Render(ok)
    \/ Tick
    \/ \E newMode \in Modes : SetMode(newMode)
    \/ \E ok \in outcomes : ApplyPenalty(ok)
    \/ DismissPlayEndedNotification
    \/ AdvanceTime(limit)
    \/ ClockBack

\* the quest and inventory steps
LedgerNext(outcomes) ==
    \/ \E title \in Titles, rewardMinutes \in RewardInputs, ok \in outcomes :
           AddQuest(title, rewardMinutes, ok)
    \/ \E id \in Ids, ok \in outcomes : DeleteQuest(id, ok)
    \/ \E k \in Ids, ok \in outcomes : ClaimQuest(k, ok)
    \/ \E ids \in SUBSET Ids, ok \in outcomes : UseInventoryItems(ids, ok)

\* the timer of either source, every Firestore write succeeding
Next ==
    \/ TimerNext({TRUE}, MaxNowSec)
    \/ OnSnapshot
    \/ InitialLoadTimeout
    \/ \E ok \in BOOLEAN : LoadFromFirestore(ok)
    \/ VisibilityHidden(TRUE)
    \/ VisibilityVisible

\* either source with its quest and inventory pages in use, over a short
\* stretch of time
NextLedger ==
    \/ LedgerNext({TRUE})
    \/ SignIn
    \/ OnSnapshot
    \/ InitialLoadTimeout
    \/ LoadFromFirestore(TRUE)
    \/ Render(TRUE)
    \/ Tick
    \/ \E newMode \in Modes : SetMode(newMode)
    \/ ApplyPenalty(TRUE)
    \/ VisibilityHidden(TRUE)
    \/ VisibilityVisible
    \/ AdvanceTime(LedgerNowSec)

Spec == Init /\ [][Next]_vars

SpecLedger == Init /\ [][NextLedger]_vars

\* either source with its quest pages and the add-quest form in use, at one
\* instant: the clock and the timer are left alone
NextQuests ==
    \/ LedgerNext({TRUE})
    \/ \E title \in TitleInputs, rewardMinutes \in RewardTexts :
           HandleSubmit(title, rewardMinutes, TRUE)
    \/ SignIn
    \/ OnSnapshot
    \/ LoadFromFirestore(TRUE)
    \/ Render(TRUE)

SpecQuests == Init /\ [][NextQuests]_vars

\* the timer of either source where a Firestore read or write may fail
NextFaulty ==
    \/ TimerNext(BOOLEAN, FaultyNowSec)
    \/ OnSnapshot
    \/ InitialLoadTimeout
    \/ \E ok \in BOOLEAN : LoadFromFirestore(ok)
    \/ \E ok \in BOOLEAN : VisibilityHidden(ok)
    \/ VisibilityVisible

SpecFaulty == Init /\ [][NextFaulty]_vars

\* the p4 source on a browser two accounts use, with page loads; a
\* Firestore write may fail
InitPending == variant = "p4" /\ Mounted

NextPending ==
    \/ SignIn
    \/ SwitchAccount
    \/ LoadFromFirestore(TRUE)
    \/ \E ok \in BOOLEAN : Render(ok)
    \/ Tick
    \/ \E newMode \in Modes : SetMode(newMode)
    \/ HandleBeforeUnload
    \/ PageLoad
    \/ AdvanceTime(PendingNowSec)

SpecPending == InitPending /\ [][NextPending]_vars

\* TimerContext.tsx open in two sessions of one account
InitSessions == variant = "ctx" /\ Mounted

NextSessions ==
    \/ SignIn
    \/ OnSnapshot
    \/ InitialLoadTimeout
    \/ Render(TRUE)
    \/ Tick
    \/ \E newMode \in Modes : SetMode(newMode)
    \/ SwitchSession
    \/ AdvanceTime(SessionsNowSec)

SpecSessions == InitSessions /\ [][NextSessions]_vars

\* either source on a browser two accounts use, over a short stretch of
\* time
NextUsers ==
    \/ SignIn
    \/ SignOut
    \/ SwitchAccount
    \/ ChangeUser
    \/ OnSnapshot
    \/ InitialLoadTimeout
    \/ LoadFromFirestore(TRUE)
    \/ Render(TRUE)
    \/ Tick
    \/ \E newMode \in Modes : SetMode(newMode)
    \/ AdvanceTime(UsersNowSec)

SpecUsers == Init /\ [][NextUsers]_vars

\* the timer of the p2 source; the getDoc of its visible handler may fail
InitReload == variant = "p2" /\ Mounted

NextReload ==
    \/ TimerNext({TRUE}, ReloadNowSec)
    \/ LoadFromFirestore(TRUE)
    \/ VisibilityHidden(TRUE)
    \/ VisibilityVisible
    \/ \E ok \in BOOLEAN : ReloadFromFirestore(ok)

SpecReload == InitReload /\ [][NextReload]_vars

\* the timer of the p3 source over a shorter stretch of time, with a steady
\* wall clock
NextDebounced ==
    \/ SignIn
    \/ SignOut
    \/ Render(TRUE)
    \/ Tick
    \/ \E newMode \in Modes : SetMode(newMode)
    \/ ApplyPenalty(TRUE)
    \/ DismissPlayEndedNotification
    \/ AdvanceTime(DebouncedNowSec)
    \/ LoadFromFirestore(TRUE)
    \/ SaveToFirestore(TRUE)
    \/ VisibilityHidden(TRUE)
    \/ VisibilityVisible

SpecDebounced == InitDebounced /\ [][NextDebounced]_vars

\* the signed-in p3 session left to its timers: the interval callback, the
\* debounce timeout and the renders run when they are due, and time passes
NextTicking ==
    \/ SignIn
    \/ LoadFromFirestore(TRUE)
    \/ Render(TRUE)
    \/ Tick
    \/ \E newMode \in Modes : SetMode(newMode)
    \/ AdvanceTime(DebouncedNowSec)
    \/ SaveToFirestore(TRUE)

SpecTicking ==
    /\ InitDebounced /\ [][NextTicking]_vars
    /\ WF_vars(LoadFromFirestore(TRUE))
    /\ WF_vars(Render(TRUE))
    /\ WF_vars(Tick)
    /\ SF_vars(SaveToFirestore(TRUE))
    /\ SF_vars(AdvanceTime(DebouncedNowSec))

----------------------------------------------------------------------------
(* Properties *)

\* the instants a reconciliation is tried at
Times == { Epoch + k * TimeStep : k \in -3 .. 2 * MaxNowSec }

\* the steps that reconcile the snapshot with the clock
ReconOps == {"tick", "catchUp", "calculateElapsedTime"}

\* the catch-ups over a computed elapsedSeconds
CatchUpOps == {"catchUp", "calculateElapsedTime"}

\* C1: in every reachable state, whatever reconciliations, penalties,
\* redemptions, addQuest and claimQuest calls led to it, playBalanceSeconds
\* is at least 0.
BalanceNeverNegative == state.playBalanceHalves >= 0

\* C2: in every state a render shows, mode = PLAY implies
\* playBalanceSeconds > 0.
PlayImpliesBalance ==
    rendered.mode = "PLAY" => rendered.playBalanceHalves > 0

\* C3: reconciling a snapshot at a time t and reconciling the result again
\* at the same t gives the result of the first reconciliation, and the
\* second call signals nothing.
ReconcileIdempotent ==
    \A t \in Times :
        LET once  == calculateElapsedTime(state, state, t)
            twice == calculateElapsedTime(once.s, once.s, t)
        IN  twice.s = once.s /\ ~twice.ended

\* C3 witness: calculateElapsedTime has just credited elapsed work seconds at
\* `now', so that a second call at the same `now' is the claim's case.
ReconciledAtNow ==
    /\ lastOp = "calculateElapsedTime"
    /\ elapsed > 0
    /\ preMode = "WORK"
    /\ state.lastTickTimestamp = now
    /\ state.workElapsedSeconds >= elapsed

\* C4: for t0 = lastTickTimestamp <= t1 <= now, reconciling at t1 and then
\* at now gives the work seconds, balance and mode of reconciling once at now.
ReconcileAdditive ==
    \A t1 \in Times :
        (state.lastTickTimestamp <= t1 /\ t1 <= now) =>
            LET first  == calculateElapsedTime(state, state, t1).s
                both   == calculateElapsedTime(first, first, now).s
                direct == calculateElapsedTime(state, state, now).s
            IN  /\ both.workElapsedSeconds = direct.workElapsedSeconds
                /\ both.playBalanceHalves = direct.playBalanceHalves
                /\ both.mode = direct.mode

\* C5: a tick or catch-up that runs when
\* floor((now - lastTickTimestamp) / 1000) <= 0 leaves workElapsedSeconds,
\* playBalanceSeconds, mode and lastTickTimestamp as they were.
NoOpWhenNothingElapsed ==
    [][ (lastOp' \in ReconOps /\ elapsed' <= 0) =>
            /\ state'.workElapsedSeconds = state.workElapsedSeconds
            /\ state'.playBalanceHalves = state.playBalanceHalves
            /\ state'.mode = state.mode
            /\ state'.lastTickTimestamp = state.lastTickTimestamp ]_vars

\* C6: while a user stays signed in and hydrated, no step makes
\* lastTickTimestamp smaller.
TimestampNeverDecreases ==
    [][ (user /\ user' /\ isHydrated /\ isHydrated') =>
            state'.lastTickTimestamp >= state.lastTickTimestamp ]_vars

\* C7: a catch-up in WORK over e > 0 elapsed seconds adds e to
\* workElapsedSeconds and e * 0.5 to playBalanceSeconds, keeps WORK and
\* sets lastTickTimestamp to now.
WorkCatchUpExact ==
    [][ (lastOp' \in CatchUpOps /\ elapsed' > 0 /\ state.mode = "WORK") =>
            /\ state'.workElapsedSeconds = state.workElapsedSeconds + elapsed'
            /\ state'.playBalanceHalves =
                   state.playBalanceHalves + elapsed' * PLAY_GAIN_RATE
            /\ state'.mode = "WORK"
            /\ state'.lastTickTimestamp = now' ]_vars

\* what a decay of `before' over e seconds must give
PlayDecayed(before, after, e) ==
    /\ after.playBalanceHalves = Max(0, before.playBalanceHalves - Sec(e))
    /\ after.workElapsedSeconds = before.workElapsedSeconds
    /\ after.mode = IF after.playBalanceHalves = 0 THEN "NOTHING" ELSE "PLAY"

\* C8: a catch-up in PLAY over e > 0 elapsed seconds (the timer effect's,
\* calculateElapsedTime's, or the one applied to a loaded document) sets
\* the balance to max(0, balance - e), leaves workElapsedSeconds alone and
\* sets mode to NOTHING exactly when the new balance is 0.
PlayCatchUpClamps ==
    [][ /\ (lastOp' \in CatchUpOps /\ elapsed' > 0 /\ state.mode = "PLAY")
            => PlayDecayed(state, state', elapsed')
        /\ (lastOp' = "loadFromFirestore" /\ elapsed' > 0 /\ preMode' = "PLAY")
            => PlayDecayed(remote[1], state', elapsed') ]_vars

\* C8 witness: calculateElapsedTime found more seconds elapsed than the
\* PLAY balance held and ended play.
PlayCatchUpEnded ==
    /\ lastOp = "calculateElapsedTime"
    /\ elapsed > 0
    /\ preMode = "PLAY"
    /\ state.mode = "NOTHING"
    /\ state.playBalanceHalves = 0

\* a reconciliation moved the mode from PLAY to NOTHING in this step
PlayEnded ==
    \/ lastOp' \in ReconOps /\ state.mode = "PLAY" /\ state'.mode = "NOTHING"
    \/ /\ lastOp' = "loadFromFirestore"
       /\ preMode' = "PLAY" /\ state'.mode = "NOTHING"

\* C9: every reconciliation that moves the mode from PLAY to NOTHING (tick,
\* catch-up, catch-up of a loaded document) sets showPlayEndedNotification,
\* and no other step sets it.
PlayEndAlwaysNotified ==
    [][ /\ PlayEnded => showPlayEndedNotification'
        /\ (~showPlayEndedNotification /\ showPlayEndedNotification')
            => PlayEnded ]_vars

\* the snapshot with only lastTickTimestamp moved to t
Stamped(s, t) == [ s EXCEPT !.lastTickTimestamp = t ]

\* C10: a tick or catch-up of a snapshot in mode NOTHING changes nothing but
\* lastTickTimestamp, which becomes now: as a step of the session, and for
\* each updater at every instant.
NothingOnlyStamps ==
    /\ [][ (lastOp' \in ReconOps /\ state.mode = "NOTHING") =>
               (state' = state \/ state' = Stamped(state, now')) ]_vars
    /\ [](state.mode = "NOTHING" =>
             \A t \in Times :
                 LET e == ElapsedSeconds(t, state.lastTickTimestamp)
                 IN  /\ TickUpdater(state, t) =
                            [ s |-> Stamped(state, t), ended |-> FALSE ]
                     /\ CatchUpUpdater(state, e, t) =
                            [ s |-> Stamped(state, t), ended |-> FALSE ]
                     /\ calculateElapsedTime(state, state, t).s
                            \in {state, Stamped(state, t)}
                     /\ LoadedState(state, t) = Stamped(state, t))

\* C10 witness: a tick ran on a snapshot in mode NOTHING that holds a quest
\* and an inventory item.
TickedInNothing ==
    /\ lastOp = "tick"
    /\ preMode = "NOTHING"
    /\ state.quests # << >>
    /\ state.inventory # << >>
    /\ state.lastTickTimestamp = now

\* C11: an interval callback that runs n >= 1 whole seconds after
\* lastTickTimestamp (callbacks were late or skipped) adds n to
\* workElapsedSeconds in WORK and takes min(n, balance) from the balance in
\* PLAY.
TickFollowsClock ==
    [][ (lastOp' = "tick" /\ elapsed' >= 1) =>
            /\ state.mode = "WORK" =>
                   state'.workElapsedSeconds = state.workElapsedSeconds + elapsed'
            /\ state.mode = "PLAY" =>
                   state'.playBalanceHalves =
                       Max(0, state.playBalanceHalves - Sec(elapsed')) ]_vars

\* `after' is `before' with e seconds of its mode applied
Reconciled(before, after, e) ==
    /\ before.mode = "WORK" =>
           /\ after.workElapsedSeconds = before.workElapsedSeconds + e
           /\ after.playBalanceHalves =
                  before.playBalanceHalves + e * PLAY_GAIN_RATE
    /\ before.mode = "PLAY" =>
           after.playBalanceHalves = Max(0, before.playBalanceHalves - Sec(e))

\* the handlers of a hidden-to-visible change
VisibleOps == {"calculateElapsedTime", "handleVisibilityChange"}

\* C12: when the page becomes visible n > 0 whole seconds after
\* lastTickTimestamp, the handler applies n seconds in that step: in WORK
\* work += n and balance += n * 0.5, in PLAY balance = max(0, balance - n).
VisibleUsesRealGap ==
    [][ (lastOp' \in VisibleOps /\ elapsed' > 0) =>
            Reconciled(state, state', elapsed') ]_vars

\* the interval callback ran (p4's returns early while hidden)
TickOps == {"tick", "tickHidden"}

\* C13: while the document is hidden, an interval callback leaves
\* workElapsedSeconds, playBalanceSeconds, mode and lastTickTimestamp as
\* they were.
HiddenNoTick ==
    [][ (~visible /\ lastOp' \in TickOps) =>
            /\ state'.workElapsedSeconds = state.workElapsedSeconds
            /\ state'.playBalanceHalves = state.playBalanceHalves
            /\ state'.mode = state.mode
            /\ state'.lastTickTimestamp = state.lastTickTimestamp ]_vars

\* C14: when a stored document in mode WORK or PLAY is loaded n > 0 whole
\* seconds after its lastTickTimestamp, the snapshot of the hydrated session
\* has n seconds of that mode applied: by loadFromFirestore itself (p4), or
\* by the render that completes hydration after onSnapshot (ctx).
ReloadCatchesUp ==
    [][ /\ (lastOp' = "loadFromFirestore" /\ elapsed' > 0) =>
               Reconciled(remote[1], state', elapsed')
        /\ ( /\ variant = "ctx" /\ user /\ isHydrated
             /\ ~hydRendered /\ hydRendered'
             /\ ElapsedSeconds(now, state.lastTickTimestamp) > 0 ) =>
               Reconciled(state, state',
                          ElapsedSeconds(now, state.lastTickTimestamp)) ]_vars

\* C15: setMode(PLAY) called when the snapshot it reads has
\* playBalanceSeconds <= 0 is rejected: no call switches to PLAY then, and
\* a rejected call (which warns) is one made at a balance <= 0 and changes
\* no field of the snapshot, in memory or stored.
SetModePlayRejected ==
    [][ /\ (lastOp' = "setMode" /\ state'.mode = "PLAY") =>
               rendered.playBalanceHalves > 0
        /\ lastOp' = "setModeRejected" =>
               /\ rendered.playBalanceHalves <= 0
               /\ state' = state
               /\ rendered' = rendered
               /\ remote' = remote ]_vars

\* C15 witness: in WORK with work done and the balance at 0 (after a
\* penalty), setMode(PLAY) was rejected.
SetModeRejectedAtZero ==
    /\ lastOp = "setModeRejected"
    /\ state = rendered
    /\ state.mode = "WORK"
    /\ state.workElapsedSeconds > 0
    /\ state.playBalanceHalves = 0

\* C16: whatever was queued before it (ticks, penalties, other updates),
\* the snapshot to which an accepted setMode(PLAY) applies its mode update
\* has playBalanceSeconds > 0.
PlayEnteredWithBalance ==
    [][ (lastOp' = "setMode" /\ state'.mode = "PLAY") =>
            state.playBalanceHalves > 0 ]_vars

\* C17: an accepted setMode at time t first applies the whole seconds
\* between lastTickTimestamp and t under the old mode, then records the new
\* mode and lastTickTimestamp = t.
SetModeReconcilesFirst ==
    [][ lastOp' = "setMode" =>
            /\ Reconciled(state, state',
                          Max(0, ElapsedSeconds(now, state.lastTickTimestamp)))
            /\ state'.lastTickTimestamp = now ]_vars

\* the snapshot with the given work seconds and balance (in seconds)
WithTimes(s, work, balance) ==
    [ s EXCEPT !.workElapsedSeconds = work, !.playBalanceHalves = Sec(balance) ]

\* C18: applyPenalty, in any mode, sets workElapsedSeconds to
\* max(0, work - 300) and playBalanceSeconds to max(0, balance - 150) in one
\* step and leaves mode, quests and inventory: as a step of the session,
\* and for the updater on (100, 40), which gives (0, 0), and on (1000, 40),
\* which gives (700, 0).
PenaltyFloorsEach ==
    /\ [][ lastOp' = "applyPenalty" =>
               /\ state'.workElapsedSeconds =
                      Max(0, state.workElapsedSeconds - 300)
               /\ state'.playBalanceHalves =
                      Max(0, state.playBalanceHalves - Sec(150))
               /\ state'.mode = state.mode
               /\ state'.quests = state.quests
               /\ state'.inventory = state.inventory ]_vars
    /\ []( /\ PenaltyUpdater(WithTimes(state, 100, 40), now)
                  = WithTimes(PenaltyUpdater(state, now), 0, 0)
           /\ PenaltyUpdater(WithTimes(state, 1000, 40), now)
                  = WithTimes(PenaltyUpdater(state, now), 700, 0)
           /\ PenaltyUpdater(WithTimes(state, 200, 400), now)
                  = WithTimes(PenaltyUpdater(state, now), 0, 250) )

\* C18 witness: applyPenalty has just floored a positive workElapsedSeconds
\* and a positive balance (those of the last render) at 0.
PenaltyFlooredBoth ==
    /\ lastOp = "applyPenalty"
    /\ syncRender
    /\ rendered.workElapsedSeconds > 0
    /\ rendered.playBalanceHalves > 0
    /\ state.workElapsedSeconds = 0
    /\ state.playBalanceHalves = 0

\* a quest as addQuest builds it, for trying the ledger updaters
SomeQuest == [ id |-> 1, title |-> << "q" >>, rewardMinutes |-> 1 ]

\* the steps that update the snapshot in place, but for applyPenalty
\* (sign-out and the loads put another snapshot in its place)
UpdateOps == ReconOps \cup TickOps \cup {"handleVisibilityChange", "setMode",
                 "setModeRejected", "addQuest", "deleteQuest", "claimQuest",
                 "useInventoryItems", "render", "dismiss"}

\* C19: workElapsedSeconds is never negative, and no tick, catch-up,
\* setMode, addQuest, deleteQuest, claimQuest or redemption makes it
\* smaller; the quest and inventory updaters leave it as it is on every
\* reachable snapshot.
WorkMonotone ==
    /\ [](state.workElapsedSeconds >= 0)
    /\ [][ lastOp' \in UpdateOps =>
               state'.workElapsedSeconds >= state.workElapsedSeconds ]_vars
    /\ []( /\ AddQuestUpdater(state, 1, << "q" >>, 1, now).workElapsedSeconds
                  = state.workElapsedSeconds
           /\ DeleteQuestUpdater(state, 1, now).workElapsedSeconds
                  = state.workElapsedSeconds
           /\ ClaimQuestUpdater(state, 1, SomeQuest, now).workElapsedSeconds
                  = state.workElapsedSeconds
           /\ UseInventoryItemsUpdater(state, Ids, now).workElapsedSeconds
                  = state.workElapsedSeconds )

\* C19 witness: with work seconds on the count, setMode has just switched
\* the mode and kept them.
WorkKeptAcrossSetMode ==
    /\ lastOp = "setMode"
    /\ preMode = "WORK"
    /\ state.mode = "NOTHING"
    /\ state.workElapsedSeconds >= 2

\* C20: addQuest called with rewardMinutes <= 0 leaves the quests list (and
\* the rest of the snapshot) as it was, so that no quest of the list ever
\* has a reward <= 0.
AddQuestRejectsNonPositive ==
    \A k \in 1 .. Len(state.quests) : state.quests[k].rewardMinutes > 0

----------------------------------------------------------------------------
(* The quest ledger *)

\* the titles of TitleInputs that hold nothing but white space
BlankTitles == { t \in TitleInputs : \A i \in DOMAIN t : t[i] = " " }

\* the texts of RewardTexts that do not start with an integer above 0:
\* nothing, 0, -1 and 0.5
RewardsBelowOne == {<< >>, << "0" >>, << "-", "1" >>, << "0", ".", "5" >>}

\* C21: a submission of the add-quest form whose title is empty after
\* trimming, or whose reward does not parse to an integer above 0, sets an
\* error message, does not call addQuest (no identifier is drawn, no click
\* of addQuest is recorded) and leaves the snapshot and the stored document
\* as they were.
SubmitRejectsInvalid ==
    [][ lastOp' \in {"submitRejected", "addQuest"}
        => \A title \in TitleInputs, rewardMinutes \in RewardTexts :
             ( /\ title \in BlankTitles \/ rewardMinutes \in RewardsBelowOne
               /\ HandleSubmit(title, rewardMinutes, TRUE) )
             => /\ error' # ""
                /\ lastOp' # "addQuest"
                /\ nextId' = nextId
                /\ state' = state
                /\ remote' = remote ]_vars

\* a submission was rejected for its reward, with a title that was accepted
SubmitRejectedForReward ==
    lastOp = "submitRejected" /\ error = MinutesInvalid

\* the identifiers of the quests or items of a sequence
IdsOf(seq) == { seq[k].id : k \in DOMAIN seq }

\* no two entries of a sequence of quests or items share an identifier
DistinctIds(seq) == Cardinality(IdsOf(seq)) = Len(seq)

\* C22: an accepted addQuest (from the form or called directly) leaves the
\* quests it found in place and in order and adds exactly one quest after
\* them, whose identifier none of them has; inventory, balance and mode are
\* unchanged.  In every reachable state the quest identifiers are pairwise
\* distinct, in the snapshot and in the snapshot the page shows.
AddQuestAppendsOne ==
    /\ [][ lastOp' = "addQuest"
           => /\ Len(state'.quests) = Len(state.quests) + 1
              /\ SubSeq(state'.quests, 1, Len(state.quests)) = state.quests
              /\ state'.quests[Len(state'.quests)].id \notin IdsOf(state.quests)
              /\ state'.inventory = state.inventory
              /\ state'.playBalanceHalves = state.playBalanceHalves
              /\ state'.mode = state.mode ]_vars
    /\ [](DistinctIds(state.quests) /\ DistinctIds(rendered.quests))

\* a quest was added after another one
SecondQuestAdded == lastOp = "addQuest" /\ Len(state.quests) = 2

\* seq without its k-th entry
Without(seq, k) == SubSeq(seq, 1, k - 1) \o SubSeq(seq, k + 1, Len(seq))

\* redeeming the one item `it' of snapshot s credits it.minutes * 60 seconds
RedeemableFor(s, it) ==
    UseInventoryItemsUpdater(s, {it.id}, s.lastTickTimestamp).playBalanceHalves
        = s.playBalanceHalves + Sec(it.minutes * 60)

\* C23: deleteQuest(id) takes out the one quest with that identifier and
\* keeps the others in order; when no quest has it, quests, inventory,
\* balance, work and mode stay as they were (in the ctx source the whole
\* snapshot).  The inventory is never changed, and every item in it, the
\* items of deleted quests included, is still redeemed for minutes * 60
\* seconds.
DeleteQuestKeepsInventory ==
    [][ \A id \in Ids :
          (lastOp' = "deleteQuest" /\ DeleteQuest(id, TRUE))
          => /\ id \in IdsOf(state.quests)
                => \E k \in DOMAIN state.quests :
                     /\ state.quests[k].id = id
                     /\ state'.quests = Without(state.quests, k)
             /\ id \notin IdsOf(state.quests)
                => /\ state'.quests = state.quests
                   /\ variant = "ctx" => state' = state
             /\ state'.inventory = state.inventory
             /\ state'.playBalanceHalves = state.playBalanceHalves
             /\ state'.workElapsedSeconds = state.workElapsedSeconds
             /\ state'.mode = state.mode
             /\ \A j \in DOMAIN state'.inventory :
                  RedeemableFor(state', state'.inventory[j]) ]_vars

\* a quest was deleted and an item claimed from it is still in the inventory
DeletedQuestItemKept ==
    /\ lastOp = "deleteQuest"
    /\ \E j \in DOMAIN state.inventory :
         state.inventory[j].questId \notin IdsOf(state.quests)

\* C24: claimQuest(quest), for the k-th quest the page shows, keeps the
\* inventory it found and adds exactly one item after it, with questId,
\* title and minutes copied from the quest's id, title and rewardMinutes, an
\* identifier no item had, and createdAt = now; quests, balance, work and
\* mode are unchanged.
ClaimQuestBanksReward ==
    [][ \A k \in Ids :
          (lastOp' = "claimQuest" /\ ClaimQuest(k, TRUE))
          => LET quest == rendered.quests[k]
                 item  == state'.inventory[Len(state'.inventory)]
             IN  /\ Len(state'.inventory) = Len(state.inventory) + 1
                 /\ SubSeq(state'.inventory, 1, Len(state.inventory))
                        = state.inventory
                 /\ item.questId = quest.id
                 /\ item.title = quest.title
                 /\ item.minutes = quest.rewardMinutes
                 /\ item.id \notin IdsOf(state.inventory)
                 /\ item.createdAt = now
                 /\ state'.quests = state.quests
                 /\ state'.playBalanceHalves = state.playBalanceHalves
                 /\ state'.workElapsedSeconds = state.workElapsedSeconds
                 /\ state'.mode = state.mode ]_vars

\* a quest was claimed and is still on the list
QuestClaimedAndKept ==
    /\ lastOp = "claimQuest"
    /\ \E j \in DOMAIN state.inventory :
         state.inventory[j].questId \in IdsOf(state.quests)

\* C25: every claim of a quest, repeated or not, leaves an item with an
\* identifier of its own (the item identifiers are pairwise distinct in
\* every reachable state), and redeeming one item credits its minutes * 60
\* seconds once and takes that one entry out, leaving every other entry,
\* the other claims of the same quest included, in place.
ClaimsAreIndependent ==
    /\ [](DistinctIds(state.inventory))
    /\ [][ \A id \in IdsOf(state.inventory) :
             (lastOp' = "useInventoryItems" /\ UseInventoryItems({id}, TRUE))
             => \E k \in DOMAIN state.inventory :
                  /\ state.inventory[k].id = id
                  /\ state'.inventory = Without(state.inventory, k)
                  /\ state'.playBalanceHalves
                       = state.playBalanceHalves
                           + Sec(state.inventory[k].minutes * 60) ]_vars

\* a quest was claimed twice and one of the two items has been redeemed: the
\* other is in the inventory and the balance holds the minutes of one
OneOfTwoClaimsRedeemed ==
    /\ lastOp = "useInventoryItems"
    /\ Len(state.quests) = 1
    /\ Len(state.inventory) = 1
    /\ nextId = 4
    /\ state.inventory[1].questId = state.quests[1].id
    /\ state.inventory[1].minutes > 0
    /\ state.playBalanceHalves = Sec(state.inventory[1].minutes * 60)

\* the minutes of the entries of seq at the positions of K, added up
RECURSIVE MinutesAt(_, _)
MinutesAt(seq, K) ==
    IF K = {} THEN 0
    ELSE LET k == CHOOSE j \in K : TRUE
         IN  seq[k].minutes + MinutesAt(seq, K \ {k})

\* an inventory item of `minutes' minutes
ItemOf(id, minutes) ==
    [ id |-> id, questId |-> id, title |-> << "q" >>, minutes |-> minutes,
      createdAt |-> Epoch ]

\* C26: useInventoryItems(ids) adds to the balance exactly 60 seconds for
\* every minute of the items whose identifier is in ids, each item once,
\* takes exactly those items out and leaves the other items (in order),
\* the quests, work and mode as they were.  Items of 10 and 15 minutes
\* redeemed together from a balance of 0 give 1500 seconds.
RedeemCreditsSelected ==
    /\ [][ \A ids \in SUBSET Ids :
             (lastOp' = "useInventoryItems" /\ UseInventoryItems(ids, TRUE))
             => LET selected == { k \in DOMAIN state.inventory :
                                    state.inventory[k].id \in ids }
                IN  /\ state'.playBalanceHalves
                         = state.playBalanceHalves
                             + Sec(60 * MinutesAt(state.inventory, selected))
                    /\ state'.inventory
                         = SelectSeq(state.inventory,
                                     LAMBDA it : it.id \notin ids)
                    /\ state'.quests = state.quests
                    /\ state'.workElapsedSeconds = state.workElapsedSeconds
                    /\ state'.mode = state.mode ]_vars
    /\ [](LET s == [ initialState EXCEPT
                       !.inventory = << ItemOf(1, 10), ItemOf(2, 15) >> ]
              r == UseInventoryItemsUpdater(s, {1, 2}, now)
          IN  r.playBalanceHalves = Sec(1500) /\ r.inventory = << >>)

\* two items claimed from one quest were redeemed together
TwoItemsRedeemed ==
    /\ lastOp = "useInventoryItems"
    /\ Len(state.quests) = 1
    /\ state.inventory = << >>
    /\ nextId = 4
    /\ state.quests[1].rewardMinutes > 0
    /\ state.playBalanceHalves = Sec(2 * 60 * state.quests[1].rewardMinutes)

\* C27: useInventoryItems(ids) ignores the identifiers no item has: the
\* call has the result of the call with the identifiers in the inventory
\* only, and a call with an empty list or with absent identifiers only
\* leaves balance and inventory unchanged.
AbsentIdsIgnored ==
    /\ [](\A ids \in SUBSET Ids :
            UseInventoryItemsUpdater(state, ids, now)
              = UseInventoryItemsUpdater(state,
                                         ids \cap IdsOf(state.inventory), now))
    /\ [][ \A ids \in SUBSET (Ids \ IdsOf(state.inventory)) :
             (lastOp' = "useInventoryItems" /\ UseInventoryItems(ids, TRUE))
             => /\ state'.playBalanceHalves = state.playBalanceHalves
                /\ state'.inventory = state.inventory ]_vars

\* useInventoryItems was called while two items were in the inventory and
\* took none of them
NothingRedeemed ==
    /\ lastOp = "useInventoryItems"
    /\ Len(state.quests) = 1
    /\ Len(state.inventory) = 2

\* the steps that replace the snapshot by a stored or default one
SnapshotOps ==
    {"signOut", "onSnapshot", "loadFromFirestore", "loadNewUser", "loadError"}

\* the positions of the items of `before' that `after' no longer holds
Gone(before, after) ==
    { k \in DOMAIN before : before[k].id \notin IdsOf(after) }

\* the inventory and the balance of a snapshot
Ledger(s) == << s.inventory, s.playBalanceHalves >>

\* C28: a redemption is all or nothing.  A useInventoryItems step adds
\* to the balance 60 seconds per minute of exactly the items it takes out
\* and adds or reorders none.  No other step takes an item out, a tick, a
\* catch-up, a mode change, a penalty and a save included, except a step
\* that replaces the whole snapshot by the stored document or the default:
\* then the inventory is the document's (or empty), and for the ctx
\* listener the balance is the document's too.  What is rendered is a
\* snapshot the provider held, and what is stored has the inventory and
\* the balance of one.
RedeemAllOrNothing ==
    [][ LET gone == Gone(state.inventory, state'.inventory)
        IN  /\ lastOp' = "useInventoryItems"
               => /\ state'.playBalanceHalves
                       = state.playBalanceHalves
                           + Sec(60 * MinutesAt(state.inventory, gone))
                  /\ state'.inventory
                       = SelectSeq(state.inventory,
                                   LAMBDA it : it.id \in IdsOf(state'.inventory))
            /\ lastOp' \notin {"useInventoryItems"} \cup SnapshotOps
               => gone = {}
            /\ lastOp' \in SnapshotOps
               => /\ state'.inventory
                       \in {state.inventory, << >>}
                            \cup { remote[i].inventory : i \in DOMAIN remote }
                  /\ lastOp' = "onSnapshot"
                     => Ledger(state')
                          \in {Ledger(state)}
                               \cup { Ledger(remote[i]) : i \in DOMAIN remote }
            /\ rendered' \in {rendered, state, state'}
            /\ remote' # remote
               => Ledger(remote'[1]) \in {Ledger(state), Ledger(state'),
                                         Ledger(rendered),
                                         Ledger(initialState)} ]_vars

\* an item of one minute was redeemed after a tick of work: the balance
\* holds the tick's half second and the item's 60 seconds
RedeemedAfterTick ==
    /\ lastOp = "useInventoryItems"
    /\ state.workElapsedSeconds = 1
    /\ state.inventory = << >>
    /\ state.playBalanceHalves = PLAY_GAIN_RATE + Sec(60)

\* C29: every mutation is computed from the snapshot the previous one left.
\* setMode decides on the latest balance (it refuses PLAY exactly when that
\* balance is 0 or less); an accepted setMode, applyPenalty, a tick and a
\* catch-up give their updater's result on the latest snapshot; and a
\* catch-up applies the seconds elapsed since the lastTickTimestamp of the
\* snapshot it updates.
SerializedMutations ==
    [][ /\ lastOp' = "setModeRejected" => state.playBalanceHalves <= 0
        /\ lastOp' = "setMode"
           => /\ state'.mode = "PLAY" => state.playBalanceHalves > 0
              /\ state' = SetModeUpdater(state, state'.mode, now)
        /\ lastOp' = "applyPenalty" => state' = PenaltyUpdater(state, now)
        /\ lastOp' = "tick" => state' = TickUpdater(state, now).s
        /\ lastOp' \in {"catchUp", "calculateElapsedTime"}
           => elapsed' = ElapsedSeconds(now, state.lastTickTimestamp) ]_vars

\* the default snapshot: work 0, balance 0, mode NOTHING, no quests, no items
IsDefault(s) ==
    /\ s.workElapsedSeconds = 0
    /\ s.playBalanceHalves = 0
    /\ s.mode = "NOTHING"
    /\ s.quests = << >>
    /\ s.inventory = << >>

\* C30: in the ctx source, while no user is signed in the snapshot (held and
\* rendered) is the default one, no step is a tick or a catch-up, the
\* snapshot does not change and the stored document is not written; the
\* logout itself leaves the default snapshot and writes nothing.
SignedOutIsDefault ==
    /\ []((variant = "ctx" /\ ~user) => (IsDefault(state) /\ IsDefault(rendered)))
    /\ [][ (variant = "ctx" /\ ~user /\ ~user')
           => /\ lastOp' \notin ReconOps \cup TickOps
              /\ state' = state
              /\ remote' = remote ]_vars
    /\ [][ (variant = "ctx" /\ lastOp' = "signOut")
           => /\ IsDefault(state')
              /\ remote' = remote ]_vars

\* in the ctx source the user worked, logged out, and time went on
LoggedOutAfterWork ==
    /\ variant = "ctx"
    /\ ~user
    /\ lastOp = "advanceTime"
    /\ remote # << >>
    /\ remote[1].workElapsedSeconds > 0

----------------------------------------------------------------------------
(* Persistence, sessions and users *)

\* C39: in every reachable snapshot and for every list of identifiers,
\* useInventoryItems(ids) called twice in succession leaves the balance and
\* the inventory that one call leaves: the second call finds none of the
\* items and credits nothing.
RedeemIdempotent ==
    \A ids \in SUBSET Ids :
        LET once == UseInventoryItemsUpdater(state, ids, now)
        IN  Ledger(UseInventoryItemsUpdater(once, ids, now)) = Ledger(once)

\* an item has just been redeemed and another one, worth some minutes, is
\* still in the inventory
RedeemedWithItemLeft ==
    /\ lastOp = "useInventoryItems"
    /\ state.playBalanceHalves # 0
    /\ \E k \in DOMAIN state.inventory : state.inventory[k].minutes # 0

\* C36: time is never over-credited.  The session starts at Epoch with the
\* default snapshot and every second of work it holds was earned since, so
\* with a steady wall clock workElapsedSeconds is at most the seconds
\* elapsed since Epoch, and the balance, which only work feeds here, at
\* most that many times 0.5.
NeverOverCredited ==
    ~skewed
    => /\ state.workElapsedSeconds * 1000 <= now - Epoch
       /\ state.playBalanceHalves * 1000 <= (now - Epoch) * PLAY_GAIN_RATE


\* C31: in the p4 source a failed load or save leaves the snapshot in memory
\* as the step without the failure leaves it and the document as it was; a
\* signed-in provider whose load has ended, failed or not, is hydrated; and
\* every write that lands carries the snapshot then in memory (stamped with
\* the time of the write when the page is being hidden)
FailuresAreHarmless ==
    /\ [](variant = "p4" /\ user /\ ~loading => isHydrated)
    /\ [][variant = "p4"
          => /\ lastOp' = "loadError"
                => state' = state /\ remote' = remote /\ isHydrated'
             /\ Render(FALSE) => state' = state /\ remote' = remote
             /\ ApplyPenalty(FALSE)
                => state' = PenaltyUpdater(state, now) /\ remote' = remote
             /\ VisibilityHidden(FALSE) => state' = state /\ remote' = remote
             /\ remote' # remote
                => remote'[1] \in {state', [ state' EXCEPT !.lastTickTimestamp = now ]}]_vars

\* p4: the save of the change to WORK failed (the document still holds
\* NOTHING), and the tick after it has been applied and rendered
TickedAfterFailedSave ==
    /\ variant = "p4" /\ user /\ isHydrated /\ Idle
    /\ state.mode = "WORK" /\ previousMode = "WORK"
    /\ state.workElapsedSeconds = 1
    /\ remote # << >> /\ remote[1].mode = "NOTHING"

\* C33: every write of the user's document is made while the snapshot in
\* memory has been loaded from that document (or the document was created
\* for a new user) since sign-in: none is made between sign-in and the end
\* of the load, and none carries a snapshot grown from the in-memory default
SavesFollowTheLoad ==
    [][remote' # remote => fromDoc']_vars


\* C35: in the p3 source a change of the snapshot (a change of mode, a tick)
\* made while at least the debounce delay of time is left to run is followed
\* by a setDoc of the debounced save (or by the snapshot being again the one
\* last saved), also while the interval callback keeps changing the snapshot
ChangeEventuallySaved ==
    (/\ lastOp \in {"setMode", "tick"} /\ user /\ isHydrated
     /\ << state >> # lastSavedState
     /\ RealTime + SaveDelayMs <= Epoch + DebouncedNowSec * 1000)
    ~> (lastOp = "saveToFirestore" \/ << state >> = lastSavedState)

\* C37: a step that applies the user's document to the snapshot in memory
\* (a snapshot event, the end of a load) keeps a mode the user has chosen
\* and the document does not hold yet: WORK in memory, chosen after the
\* document was written, is still the mode after the step
RemoteReadKeepsMutation ==
    [][(/\ lastOp' \in {"onSnapshot", "loadFromFirestore"}
        /\ user /\ remote # << >>
        /\ state.mode = "WORK" /\ remote[1].mode # "WORK")
       => state'.mode = "WORK"]_vars


\* C32: in the p2 source every change from hidden to visible of a hydrated
\* signed-in session starts a fetch of the user's document, and while that
\* fetch is in flight no interval callback changes the snapshot in memory
ReloadBeforeTicking ==
    [][/\ (variant = "p2" /\ user /\ hydRendered /\ ~visible /\ visible')
          => reloading'
       /\ reloading => lastOp' # "tick"]_vars


\* the document of account u
DocOf(u) == IF u = uid THEN remote ELSE otherDoc

\* C38: a write of an account's document does not carry a snapshot that was
\* loaded from the other account's document: when the document of u
\* changes, the snapshot in memory was not loaded from the other account,
\* or what is written is the default document created for a new user
SnapshotsStayWithTheirUser ==
    [][\A u \in Accounts :
           DocOf(u)' # DocOf(u)
           => (owner' # Other(u) \/ IsDefault(DocOf(u)'[1]))]_vars


\* C34: in the p4 source, the render that sets up the visibility effect of
\* a hydrated signed-in session with a pending save in localStorage leaves
\* the snapshot in memory alone when the stored uid is not the user's;
\* when it is the user's, the pending entry is removed, and if the pending
\* snapshot's lastTickTimestamp is later than the one of the user's
\* document, the pending snapshot caught up to now becomes the snapshot in
\* memory and is written to the document
PendingSaveRestored ==
    [][(/\ variant = "p4" /\ lastOp' = "render"
        /\ user /\ isHydrated /\ ~hydRendered /\ pendingSave # << >>)
       => /\ pendingUid # uid => state' = state
          /\ pendingUid = uid => pendingSave' = << >>
          /\ (/\ pendingUid = uid /\ remote # << >>
              /\ pendingSave[1].lastTickTimestamp > remote[1].lastTickTimestamp)
             => (/\ state' = RestoredState(pendingSave[1], now)
                 /\ remote' = << state' >>)]_vars

=============================================================================
